---- MODULE Spec2Model ----
(***************************************************************************)
(* The gradekeeper coordinator ("master"): the live-socket map, the        *)
(* AgentRecord set, the dashboard set, the snapshot file, the heartbeat    *)
(* monitor, the per-socket handler and the command dispatch.               *)
(* Time is counted in seconds.                                             *)
(***************************************************************************)
EXTENDS Integers, Sequences, FiniteSets, Bags, TLC

\* ---------------------------------------------------------------- constants
HeartbeatInterval == 30
HeartbeatTimeout == 90
MonitorPeriod == 30

InitialBackoff == 1
MaxBackoff == 30
StatusTimeout == 2

\* ---------------------------------------------------------------- bounds
NumSocks == 3
NumTimedSocks == 1
NumCmdSocks == 2
NumReqs == 1
MaxCmds == 1
MaxRuns == 2
MaxDials == 8
MaxShutdownDials == 2
MaxBeatDials == 1
MaxReconnectDials == 2
MaxFrames == 2
MaxReports == 1
MaxRestarts == 1
MaxTime == 120
MaxTimedTime == 150
CoarseStep == 30
FineStep == 5

Socks == 1..NumSocks
TimedSocks == 1..NumTimedSocks
CmdSocks == 1..NumCmdSocks
Reqs == 1..NumReqs
Runs == 1..MaxRuns
AgentIds == {"linux-lab01", "linux-lab02"}
RegIds == {"linux-lab01"}
HostIds == {"linux-a", "linux-pc", "linux-lab01"}
OwnId == "linux-lab01"
KnownActions == {"setup", "open-vscode", "open-chrome", "setupAll", "clear"}
ExecActions == KnownActions \cup {"reboot", ""}
NoTarget == "<nil>"
ExecTargets == {"all", "", NoTarget, "linux-lab01", "linux-lab02"}
LocalActions == {"folder", "editor", "browser", "clear"}
DashboardSecret == "secret"
AuthValues == {"", DashboardSecret, "guess"}
CmdActions == {"setup"}
CmdTargets == {"all", "", "linux-lab01", "linux-lab02", "linux-lab99"}

VARIABLES
    now,            \* time.Now(), in seconds
    nextTick,       \* the next firing of the monitor's ticker
    clients,        \* Master.clients: id -> socket
    clientsInfo,    \* Master.clientsInfo: id -> ClientInfo
    dashboardConns, \* Master.dashboardConns
    clientsMu,      \* Master.clientsMu: [writer, readers]
    storageFile,    \* the snapshot file: [exists, data]
    pc,             \* position of each socket's handler
    cid,            \* the handler's clientID
    closed,         \* conn.Close() has been called on the socket
    out,            \* frames written to the socket, in order
    snap,           \* saveClientData's local copy, per handler
    tdCount,        \* the handler's clientCount local
    mpc,            \* position of the heartbeat monitor
    mdisc,          \* the monitor's disconnectedClients
    mnow,           \* the monitor's now
    msnap,          \* saveClientData's local copy in the monitor
    creq,           \* the command requests in progress
    cmds,           \* number of commands dispatched so far
    emitted,        \* the messages handed to broadcastToDashboard
    mainpc,         \* position of the coordinator's main goroutine
    restarts,       \* number of times the coordinator has been started again
    amain,          \* position of the agent's main goroutine
    run,            \* each connectWithRetry: [pc, backoff, fails, wait]
    lsn,            \* each listen goroutine: [pc, msg, on]
    conn,           \* Client.conn: 0 for nil, else the connection of that run
    link,           \* each connection: [mode, inbox, peerClosed, localClosed]
    retrying,       \* Client.retrying
    shouldNotReconnect, \* Client.shouldNotReconnect
    shutdown,       \* Client.shutdown has been closed
    sender,         \* position of the goroutine sending "disconnecting"
    waited,         \* seconds main has waited for that goroutine
    dials,          \* number of connection attempts made so far
    xpc,            \* position of the agent's listener in a command frame
    xframe,         \* the command frame being handled: [action, target]
    xsent,          \* the action_status frames given to WriteJSON for it
    xran,           \* the LocalActions invoked for it: [op, ok]
    xres,           \* executeCommand's result: [status, error]
    xcount,         \* number of command frames received
    xdone,          \* final status of each command executed so far
    reports,        \* number of action_status frames the coordinator handled
    hb,             \* each startHeartbeat goroutine: [pc, tick, on]
    wr,             \* the conn.WriteJSON calls in progress: <<request, socket>>
    dashboardMu     \* Master.dashboardMu: [writer, readers]

vars == <<now, nextTick, clients, clientsInfo, dashboardConns, clientsMu,
          storageFile, pc, cid, closed, out, snap, tdCount, mpc, mdisc, mnow,
          msnap, creq, cmds, emitted, mainpc, restarts, amain, run, lsn, conn,
          link, retrying, shouldNotReconnect, shutdown, sender, waited, dials,
          xpc, xframe, xsent, xran, xres, xcount, xdone, reports, hb, wr,
          dashboardMu>>

sockVars == <<pc, cid, closed, out, snap, tdCount>>
monVars == <<mpc, mdisc, mnow, msnap>>
timeVars == <<now, nextTick>>
regVars == <<clients, clientsInfo>>
mainVars == <<mainpc, restarts>>
agentVars == <<amain, run, lsn, conn, link, retrying, shouldNotReconnect, shutdown,
               sender, waited, dials, hb>>
masterVars == <<now, nextTick, clients, clientsInfo, dashboardConns, clientsMu,
                storageFile, pc, cid, closed, out, snap, tdCount, mpc, mdisc, mnow,
                msnap, creq, cmds, emitted, mainpc, restarts, reports, wr,
                dashboardMu>>
execVars == <<xpc, xframe, xsent, xran, xres, xcount, xdone>>
reportVars == <<reports>>
beatVars == <<hb>>
ioVars == <<wr, dashboardMu>>

\* ---------------------------------------------------------------- helpers
Min(a, b) == IF a < b THEN a ELSE b

Put(m, k, v) == [x \in (DOMAIN m) \cup {k} |-> IF x = k THEN v ELSE m[x]]

Del(m, k) == [x \in (DOMAIN m) \ {k} |-> m[x]]

EmptyMap == [x \in {} |-> 0]

\* Message, with the Data fields the coordinator uses
Msg(type, clientId, info, action, target, count, ts) ==
    [type |-> type, clientId |-> clientId, info |-> info, action |-> action,
     target |-> target, count |-> count, ts |-> ts]

\* ClientInfo (Name is a function of ID and is left out)
Info(id, status, lastSeen, firstSeen, lastHeartbeat) ==
    [id |-> id, status |-> status, lastSeen |-> lastSeen,
     firstSeen |-> firstSeen, lastHeartbeat |-> lastHeartbeat]

\* conn.WriteJSON: fails on a socket that has been closed
WriteJSON(o, c, s, m) == IF c[s] THEN o ELSE [o EXCEPT ![s] = Append(@, m)]

\* sync.RWMutex
CanLock == clientsMu.writer = 0 /\ clientsMu.readers = {}

CanRLock == clientsMu.writer = 0

\* the orders in which a range over a map can visit its keys
Orders(S) ==
    {f \in [1..Cardinality(S) -> S] : \A i, j \in 1..Cardinality(S) : f[i] = f[j] => i = j}

\* saveClientData, lines 104-109: the copy taken under the read lock
Snapshots == {[i \in 1..Len(o) |-> clientsInfo[o[i]]] : o \in Orders(DOMAIN clientsInfo)}

\* LoadClientData keeping the status found in the file
LoadClientDataAsSaved(file) ==
    IF file.exists
    THEN [id \in {file.data[i].id : i \in 1..Len(file.data)} |->
            LET i == CHOOSE j \in 1..Len(file.data) :
                        /\ file.data[j].id = id
                        /\ \A k \in (j + 1)..Len(file.data) : file.data[k].id # id
            IN file.data[i]]
    ELSE EmptyMap

\* loadClientData
LoadClientData(file) ==
    IF file.exists
    THEN [id \in {file.data[i].id : i \in 1..Len(file.data)} |->
            LET i == CHOOSE j \in 1..Len(file.data) :
                        /\ file.data[j].id = id
                        /\ \A k \in (j + 1)..Len(file.data) : file.data[k].id # id
            IN [file.data[i] EXCEPT !.status = "disconnected"]]
    ELSE EmptyMap

NoFile == [exists |-> FALSE, data |-> <<>>]

\* broadcastToDashboard: the write to each dashboard socket in `failed` returns
\* an error and the socket is deleted from the set
BroadcastToDashboard(m, failed) ==
    /\ failed \subseteq dashboardConns
    /\ emitted' = emitted (+) SetToBag({m})
    /\ dashboardConns' = dashboardConns \ failed
    /\ out' = [s \in DOMAIN out |->
                IF s \in dashboardConns \ failed /\ ~closed[s]
                THEN Append(out[s], m) ELSE out[s]]

IdleReq == [pc |-> "idle", action |-> "", target |-> "", todo |-> {},
            sentTo |-> {}, reply |-> ""]

\* a connectWithRetry that has not been started: backoff := time.Second
NoRun == [pc |-> "off", backoff |-> InitialBackoff, fails |-> 0, wait |-> 0]
\* a connection that has not been dialled
NoLink == [mode |-> "none", inbox |-> <<>>, peerClosed |-> FALSE, localClosed |-> FALSE]

\* a startHeartbeat that has not been started
NoBeat == [pc |-> "off", tick |-> FALSE, on |-> 0]

\* ---------------------------------------------------------------- Init
InitialFiles ==
    {NoFile,
     [exists |-> TRUE, data |-> <<Info("linux-lab01", "connected", 0, 0, 0)>>]}

Init ==
    /\ now = 0
    /\ nextTick = MonitorPeriod
    /\ clients = EmptyMap
    /\ storageFile \in InitialFiles
    /\ clientsInfo = LoadClientData(storageFile)
    /\ dashboardConns = {}
    /\ clientsMu = [writer |-> 0, readers |-> {}]
    /\ pc = [s \in Socks |-> "idle"]
    /\ cid = [s \in Socks |-> ""]
    /\ closed = [s \in Socks |-> FALSE]
    /\ out = [s \in Socks |-> <<>>]
    /\ snap = [s \in Socks |-> <<>>]
    /\ tdCount = [s \in Socks |-> 0]
    /\ mpc = "idle"
    /\ mdisc = {}
    /\ mnow = 0
    /\ msnap = <<>>
    /\ creq = [r \in Reqs |-> IdleReq]
    /\ cmds = 0
    /\ emitted = EmptyBag
    /\ mainpc = "serve"
    /\ restarts = 0
    /\ amain = "select"
    /\ run = [k \in Runs |-> IF k = 1 THEN [NoRun EXCEPT !.pc = "check"] ELSE NoRun]
    /\ lsn = [k \in Runs |-> [pc |-> "off", msg |-> "", on |-> 0]]
    /\ conn = 0
    /\ link = [k \in Runs |-> NoLink]
    /\ retrying = FALSE
    /\ shouldNotReconnect = FALSE
    /\ shutdown = FALSE
    /\ sender = "off"
    /\ waited = 0
    /\ dials = 0
    /\ xpc = "read"
    /\ xframe = [action |-> "", target |-> ""]
    /\ xsent = <<>>
    /\ xran = <<>>
    /\ xres = [status |-> "", error |-> ""]
    /\ xcount = 0
    /\ xdone = <<>>
    /\ reports = 0
    /\ hb = [k \in Runs |-> NoBeat]
    /\ wr = {}
    /\ dashboardMu = [writer |-> 0, readers |-> {}]

\* ---------------------------------------------------------------- socket handler
\* Connect letting a socket with a wrong secret go on as an agent when it has an
\* identity header
ConnectFallThrough(s, id, auth) ==
    /\ pc[s] = "idle"
    /\ IF s = 1 THEN TRUE ELSE pc[s - 1] # "idle"
    /\ IF auth = DashboardSecret
       THEN /\ dashboardConns' = dashboardConns \cup {s}
            /\ pc' = [pc EXCEPT ![s] = "dashWelcome"]
            /\ UNCHANGED <<cid, closed>>
       ELSE IF id = ""
            THEN /\ closed' = [closed EXCEPT ![s] = TRUE]
                 /\ pc' = [pc EXCEPT ![s] = "done"]
                 /\ UNCHANGED <<cid, dashboardConns>>
            ELSE /\ cid' = [cid EXCEPT ![s] = id]
                 /\ pc' = [pc EXCEPT ![s] = "register"]
                 /\ UNCHANGED <<closed, dashboardConns>>
    /\ UNCHANGED <<timeVars, regVars, clientsMu, storageFile, out, snap, tdCount,
                   monVars, creq, cmds, emitted, mainVars, agentVars, execVars, reportVars, ioVars>>

\* handleWebSocket, lines 202-261: upgrade and classification of the socket.
\* Sockets are numbered in the order in which they are upgraded.
Connect(s, id, auth) ==
    /\ pc[s] = "idle"
    /\ IF s = 1 THEN TRUE ELSE pc[s - 1] # "idle"
    /\ IF auth # ""
       THEN IF auth = DashboardSecret
            THEN /\ dashboardConns' = dashboardConns \cup {s}
                 /\ pc' = [pc EXCEPT ![s] = "dashWelcome"]
                 /\ UNCHANGED <<cid, closed>>
            ELSE /\ closed' = [closed EXCEPT ![s] = TRUE]
                 /\ pc' = [pc EXCEPT ![s] = "done"]
                 /\ UNCHANGED <<cid, dashboardConns>>
       ELSE IF id = ""
            THEN /\ closed' = [closed EXCEPT ![s] = TRUE]
                 /\ pc' = [pc EXCEPT ![s] = "done"]
                 /\ UNCHANGED <<cid, dashboardConns>>
            ELSE /\ cid' = [cid EXCEPT ![s] = id]
                 /\ pc' = [pc EXCEPT ![s] = "register"]
                 /\ UNCHANGED <<closed, dashboardConns>>
    /\ UNCHANGED <<timeVars, regVars, clientsMu, storageFile, out, snap, tdCount,
                   monVars, creq, cmds, emitted,
                   mainVars, agentVars, execVars, reportVars, ioVars>>

\* Register without the duplicate check: the last socket wins
RegisterOverwrite(s) ==
    /\ pc[s] = "register"
    /\ CanLock
    /\ LET id == cid[s] IN
       /\ clients' = Put(clients, id, s)
       /\ clientsInfo' = IF id \in DOMAIN clientsInfo
                         THEN [clientsInfo EXCEPT ![id] =
                                 [@ EXCEPT !.status = "connected", !.lastSeen = now,
                                           !.lastHeartbeat = now]]
                         ELSE Put(clientsInfo, id, Info(id, "connected", now, now, now))
    /\ pc' = [pc EXCEPT ![s] = "regSave"]
    /\ UNCHANGED <<timeVars, dashboardConns, clientsMu, storageFile, cid, closed, out,
                   snap, tdCount, monVars, creq, cmds, emitted,
                   mainVars, agentVars, execVars, reportVars, ioVars>>

\* Register stamping lastSeen before the duplicate check
RegisterStampFirst(s) ==
    /\ pc[s] = "register"
    /\ CanLock
    /\ LET id == cid[s] IN
       IF id \in DOMAIN clients
       THEN /\ clientsInfo' = [clientsInfo EXCEPT ![id].lastSeen = now]
            /\ pc' = [pc EXCEPT ![s] = "rejected"]
            /\ UNCHANGED clients
       ELSE /\ clients' = Put(clients, id, s)
            /\ clientsInfo' = IF id \in DOMAIN clientsInfo
                              THEN [clientsInfo EXCEPT ![id] =
                                      [@ EXCEPT !.status = "connected", !.lastSeen = now,
                                                !.lastHeartbeat = now]]
                              ELSE Put(clientsInfo, id,
                                       Info(id, "connected", now, now, now))
            /\ pc' = [pc EXCEPT ![s] = "regSave"]
    /\ UNCHANGED <<timeVars, dashboardConns, clientsMu, storageFile, cid, closed, out,
                   snap, tdCount, monVars, creq, cmds, emitted,
                   mainVars, agentVars, execVars, reportVars, ioVars>>

\* Register creating a fresh record on every registration
RegisterFresh(s) ==
    /\ pc[s] = "register"
    /\ CanLock
    /\ LET id == cid[s] IN
       IF id \in DOMAIN clients
       THEN /\ pc' = [pc EXCEPT ![s] = "rejected"]
            /\ UNCHANGED <<regVars, clientsMu, closed>>
       ELSE /\ clients' = Put(clients, id, s)
            /\ clientsInfo' = Put(clientsInfo, id, Info(id, "connected", now, now, now))
            /\ pc' = [pc EXCEPT ![s] = "regSave"]
            /\ UNCHANGED <<clientsMu, closed>>
    /\ UNCHANGED <<timeVars, dashboardConns, storageFile, cid, out, snap, tdCount,
                   monVars, creq, cmds, emitted, mainVars, agentVars, execVars, reportVars, ioVars>>

\* handleWebSocket, lines 263-304: the duplicate check and the registration,
\* under clientsMu.Lock. clientID[:8] panics on an id shorter than 8 bytes, after
\* the insertion into m.clients and with the lock held; the deferred conn.Close
\* still runs.
Register(s) ==
    /\ pc[s] = "register"
    /\ CanLock
    /\ LET id == cid[s] IN
       IF id \in DOMAIN clients
       THEN /\ pc' = [pc EXCEPT ![s] = "rejected"]
            /\ UNCHANGED <<regVars, clientsMu, closed>>
       ELSE /\ clients' = Put(clients, id, s)
            /\ IF id \in DOMAIN clientsInfo
               THEN /\ clientsInfo' = [clientsInfo EXCEPT ![id] =
                           [@ EXCEPT !.status = "connected", !.lastSeen = now,
                                     !.lastHeartbeat = now]]
                    /\ pc' = [pc EXCEPT ![s] = "regSave"]
                    /\ UNCHANGED <<clientsMu, closed>>
               ELSE IF Len(id) < 8
                    THEN /\ clientsMu' = [clientsMu EXCEPT !.writer = s]
                         /\ closed' = [closed EXCEPT ![s] = TRUE]
                         /\ pc' = [pc EXCEPT ![s] = "panicked"]
                         /\ UNCHANGED clientsInfo
                    ELSE /\ clientsInfo' = Put(clientsInfo, id,
                                               Info(id, "connected", now, now, now))
                         /\ pc' = [pc EXCEPT ![s] = "regSave"]
                         /\ UNCHANGED <<clientsMu, closed>>
    /\ UNCHANGED <<timeVars, dashboardConns, storageFile, cid, out, snap, tdCount,
                   monVars, creq, cmds, emitted,
                   mainVars, agentVars, execVars, reportVars, ioVars>>

\* RejectSend with conn.Close before the write of the error frame
RejectSendAfterClose(s) ==
    /\ pc[s] = "rejected"
    /\ closed' = [closed EXCEPT ![s] = TRUE]
    /\ out' = WriteJSON(out, closed', s,
                        Msg("error", "", "duplicate_connection", "", "", 0, now))
    /\ pc' = [pc EXCEPT ![s] = "done"]
    /\ UNCHANGED <<timeVars, regVars, dashboardConns, clientsMu, storageFile, cid,
                   snap, tdCount, monVars, creq, cmds, emitted,
                   mainVars, agentVars, execVars, reportVars, ioVars>>

\* handleWebSocket, lines 270-281: the error frame, then conn.Close and return
RejectSend(s) ==
    /\ pc[s] = "rejected"
    /\ out' = WriteJSON(out, closed, s,
                        Msg("error", "", "duplicate_connection", "", "", 0, now))
    /\ closed' = [closed EXCEPT ![s] = TRUE]
    /\ pc' = [pc EXCEPT ![s] = "done"]
    /\ UNCHANGED <<timeVars, regVars, dashboardConns, clientsMu, storageFile, cid,
                   snap, tdCount, monVars, creq, cmds, emitted,
                   mainVars, agentVars, execVars, reportVars, ioVars>>

AfterSnapshot(p) ==
    CASE p = "regSave" -> "regWrite"
      [] p = "hbSave" -> "hbWrite"
      [] p = "tdSave" -> "tdWrite"

AfterWrite(p) ==
    CASE p = "regWrite" -> "regNotify"
      [] p = "hbWrite" -> "read"
      [] p = "tdWrite" -> "tdNotify"

\* saveClientData, lines 104-109, called from a socket handler
SaveSnapshot(s) ==
    /\ pc[s] \in {"regSave", "hbSave", "tdSave"}
    /\ CanRLock
    /\ \E c \in Snapshots : snap' = [snap EXCEPT ![s] = c]
    /\ pc' = [pc EXCEPT ![s] = AfterSnapshot(pc[s])]
    /\ UNCHANGED <<timeVars, regVars, dashboardConns, clientsMu, storageFile, cid,
                   closed, out, tdCount, monVars, creq, cmds, emitted,
                   mainVars, agentVars, execVars, reportVars, ioVars>>

\* saveClientData, lines 111-120: os.WriteFile replaces the file
SaveWrite(s) ==
    /\ pc[s] \in {"regWrite", "hbWrite", "tdWrite"}
    /\ storageFile' = [exists |-> TRUE, data |-> snap[s]]
    /\ snap' = [snap EXCEPT ![s] = <<>>]
    /\ pc' = [pc EXCEPT ![s] = AfterWrite(pc[s])]
    /\ UNCHANGED <<timeVars, regVars, dashboardConns, clientsMu, cid, closed, out,
                   tdCount, monVars, creq, cmds, emitted,
                   mainVars, agentVars, execVars, reportVars, ioVars>>

\* handleWebSocket, lines 311-319; len(m.clients) is read without the lock
NotifyConnected(s) ==
    /\ pc[s] = "regNotify"
    /\ \E failed \in SUBSET dashboardConns :
          BroadcastToDashboard(Msg("client-connected", cid[s], "", "", "",
                                   Cardinality(DOMAIN clients), now), failed)
    /\ pc' = [pc EXCEPT ![s] = "welcome"]
    /\ UNCHANGED <<timeVars, regVars, clientsMu, storageFile, cid, closed, snap,
                   tdCount, monVars, creq, cmds,
                   mainVars, agentVars, execVars, reportVars, ioVars>>

\* handleWebSocket, lines 321-327
Welcome(s) ==
    /\ pc[s] = "welcome"
    /\ out' = WriteJSON(out, closed, s, Msg("welcome", cid[s], "", "", "", 0, now))
    /\ pc' = [pc EXCEPT ![s] = "read"]
    /\ UNCHANGED <<timeVars, regVars, dashboardConns, clientsMu, storageFile, cid,
                   closed, snap, tdCount, monVars, creq, cmds, emitted,
                   mainVars, agentVars, execVars, reportVars, ioVars>>

\* handleWebSocket, lines 322-327: the handler enters conn.WriteJSON with the
\* welcome frame; task 0 of a socket is its handler
WelcomeBegin(s) ==
    /\ pc[s] = "welcome"
    /\ wr' = wr \cup {<<0, s>>}
    /\ pc' = [pc EXCEPT ![s] = "welcoming"]
    /\ UNCHANGED <<timeVars, regVars, dashboardConns, clientsMu, storageFile, cid,
                   closed, out, snap, tdCount, monVars, creq, cmds, emitted,
                   mainVars, agentVars, execVars, reportVars, dashboardMu>>

\* handleWebSocket, line 327: conn.WriteJSON of the welcome frame returns
WelcomeEnd(s) ==
    /\ pc[s] = "welcoming"
    /\ out' = WriteJSON(out, closed, s, Msg("welcome", cid[s], "", "", "", 0, now))
    /\ wr' = wr \ {<<0, s>>}
    /\ pc' = [pc EXCEPT ![s] = "read"]
    /\ UNCHANGED <<timeVars, regVars, dashboardConns, clientsMu, storageFile, cid,
                   closed, snap, tdCount, monVars, creq, cmds, emitted,
                   mainVars, agentVars, execVars, reportVars, dashboardMu>>

\* handleWebSocket, lines 330-338: conn.ReadJSON returns a heartbeat frame
RecvHeartbeat(s) ==
    /\ pc[s] = "read"
    /\ ~closed[s]
    /\ pc' = [pc EXCEPT ![s] = "hb"]
    /\ UNCHANGED <<timeVars, regVars, dashboardConns, clientsMu, storageFile, cid,
                   closed, out, snap, tdCount, monVars, creq, cmds, emitted,
                   mainVars, agentVars, execVars, reportVars, ioVars>>

\* HandleHeartbeat stamping every record
HandleHeartbeatAll(s) ==
    /\ pc[s] = "hb"
    /\ CanLock
    /\ clientsInfo' = [id \in DOMAIN clientsInfo |->
                          IF cid[s] \in DOMAIN clientsInfo
                          THEN [clientsInfo[id] EXCEPT !.lastHeartbeat = now,
                                                       !.lastSeen = now,
                                                       !.status = "connected"]
                          ELSE clientsInfo[id]]
    /\ pc' = [pc EXCEPT ![s] = "hbSave"]
    /\ UNCHANGED <<timeVars, clients, dashboardConns, clientsMu, storageFile, cid,
                   closed, out, snap, tdCount, monVars, creq, cmds, emitted,
                   mainVars, agentVars, execVars, reportVars, ioVars>>

\* handleClientMessage, lines 375-386
HandleHeartbeat(s) ==
    /\ pc[s] = "hb"
    /\ CanLock
    /\ LET id == cid[s] IN
       clientsInfo' = IF id \in DOMAIN clientsInfo
                      THEN [clientsInfo EXCEPT ![id] =
                              [@ EXCEPT !.lastHeartbeat = now, !.lastSeen = now,
                                        !.status = "connected"]]
                      ELSE clientsInfo
    /\ pc' = [pc EXCEPT ![s] = "hbSave"]
    /\ UNCHANGED <<timeVars, clients, dashboardConns, clientsMu, storageFile, cid,
                   closed, out, snap, tdCount, monVars, creq, cmds, emitted,
                   mainVars, agentVars, execVars, reportVars, ioVars>>

\* handleWebSocket, lines 330-338, and handleClientMessage, lines 365-389:
\* conn.ReadJSON returns an action_status frame; the switch on msg.Type has no
\* case for it, so the frame is logged and the handler reads again
RecvReport(s) ==
    /\ pc[s] = "read"
    /\ ~closed[s]
    /\ reports < MaxReports
    /\ reports' = reports + 1
    /\ UNCHANGED <<timeVars, regVars, dashboardConns, clientsMu, storageFile, sockVars,
                   monVars, creq, cmds, emitted, mainVars, agentVars, execVars,
                   ioVars>>

\* Teardown deleting the agent's record together with its socket
TeardownForgets(s) ==
    /\ pc[s] = "read"
    /\ CanLock
    /\ LET id == cid[s] IN
       /\ clients' = Del(clients, id)
       /\ clientsInfo' = Del(clientsInfo, id)
       /\ tdCount' = [tdCount EXCEPT ![s] = Cardinality(DOMAIN clients')]
    /\ pc' = [pc EXCEPT ![s] = "tdSave"]
    /\ UNCHANGED <<timeVars, dashboardConns, clientsMu, storageFile, cid, closed,
                   out, snap, monVars, creq, cmds, emitted,
                   mainVars, agentVars, execVars, reportVars, ioVars>>

\* handleWebSocket, lines 332-349: conn.ReadJSON returns an error, the loop is
\* left and the client is marked as disconnected under clientsMu.Lock
Teardown(s) ==
    /\ pc[s] = "read"
    /\ CanLock
    /\ LET id == cid[s] IN
       /\ clients' = Del(clients, id)
       /\ clientsInfo' = IF id \in DOMAIN clientsInfo
                         THEN [clientsInfo EXCEPT ![id] =
                                 [@ EXCEPT !.status = "disconnected", !.lastSeen = now]]
                         ELSE clientsInfo
       /\ tdCount' = [tdCount EXCEPT ![s] = Cardinality(DOMAIN clients')]
    /\ pc' = [pc EXCEPT ![s] = "tdSave"]
    /\ UNCHANGED <<timeVars, dashboardConns, clientsMu, storageFile, cid, closed,
                   out, snap, monVars, creq, cmds, emitted,
                   mainVars, agentVars, execVars, reportVars, ioVars>>

\* handleWebSocket, lines 332-342: the read error and m.clientsMu.Lock(), as a
\* step of its own; the handler is then inside its exclusive section
TeardownLock(s) ==
    /\ pc[s] = "read"
    /\ CanLock
    /\ clientsMu' = [clientsMu EXCEPT !.writer = s]
    /\ pc' = [pc EXCEPT ![s] = "tdLocked"]
    /\ UNCHANGED <<timeVars, regVars, dashboardConns, storageFile, cid, closed, out,
                   snap, tdCount, monVars, creq, cmds, emitted,
                   mainVars, agentVars, execVars, reportVars, ioVars>>

\* handleWebSocket, lines 343-349: the exclusive section and m.clientsMu.Unlock()
TeardownLocked(s) ==
    /\ pc[s] = "tdLocked"
    /\ clientsMu.writer = s
    /\ LET id == cid[s] IN
       /\ clients' = Del(clients, id)
       /\ clientsInfo' = IF id \in DOMAIN clientsInfo
                         THEN [clientsInfo EXCEPT ![id] =
                                 [@ EXCEPT !.status = "disconnected", !.lastSeen = now]]
                         ELSE clientsInfo
       /\ tdCount' = [tdCount EXCEPT ![s] = Cardinality(DOMAIN clients')]
    /\ clientsMu' = [clientsMu EXCEPT !.writer = 0]
    /\ pc' = [pc EXCEPT ![s] = "tdSave"]
    /\ UNCHANGED <<timeVars, dashboardConns, storageFile, cid, closed, out, snap,
                   monVars, creq, cmds, emitted,
                   mainVars, agentVars, execVars, reportVars, ioVars>>

\* handleWebSocket, lines 354-363, and the deferred conn.Close of line 208
NotifyDisconnected(s) ==
    /\ pc[s] = "tdNotify"
    /\ \E failed \in SUBSET dashboardConns :
          BroadcastToDashboard(Msg("client-disconnected", cid[s], "", "", "",
                                   tdCount[s], now), failed)
    /\ closed' = [closed EXCEPT ![s] = TRUE]
    /\ pc' = [pc EXCEPT ![s] = "done"]
    /\ UNCHANGED <<timeVars, regVars, clientsMu, storageFile, cid, snap, tdCount,
                   monVars, creq, cmds,
                   mainVars, agentVars, execVars, reportVars, ioVars>>

\* sync.RWMutex, for Master.dashboardMu
CanLockDash == dashboardMu.writer = 0 /\ dashboardMu.readers = {}

CanRLockDash == dashboardMu.writer = 0

\* handleWebSocket, line 312, and broadcastToDashboard, line 430: the handler
\* takes m.dashboardMu.RLock() for the client-connected event
NotifyLock(s) ==
    /\ pc[s] = "regNotify"
    /\ CanRLockDash
    /\ dashboardMu' = [dashboardMu EXCEPT !.readers = @ \cup {s}]
    /\ pc' = [pc EXCEPT ![s] = "regBroadcast"]
    /\ UNCHANGED <<timeVars, regVars, dashboardConns, clientsMu, storageFile, cid,
                   closed, out, snap, tdCount, monVars, creq, cmds, emitted,
                   mainVars, agentVars, execVars, reportVars, wr>>

\* broadcastToDashboard, lines 433-439: the loop over the dashboard sockets; a
\* socket whose write fails is deleted from the set
NotifyWrites(s) ==
    /\ pc[s] = "regBroadcast"
    /\ \E failed \in SUBSET dashboardConns :
          BroadcastToDashboard(Msg("client-connected", cid[s], "", "", "",
                                   Cardinality(DOMAIN clients), now), failed)
    /\ pc' = [pc EXCEPT ![s] = "regBroadcastDone"]
    /\ UNCHANGED <<timeVars, regVars, clientsMu, storageFile, cid, closed, snap,
                   tdCount, monVars, creq, cmds,
                   mainVars, agentVars, execVars, reportVars, ioVars>>

\* broadcastToDashboard, line 431: the deferred m.dashboardMu.RUnlock()
NotifyUnlock(s) ==
    /\ pc[s] = "regBroadcastDone"
    /\ dashboardMu' = [dashboardMu EXCEPT !.readers = @ \ {s}]
    /\ pc' = [pc EXCEPT ![s] = "welcome"]
    /\ UNCHANGED <<timeVars, regVars, dashboardConns, clientsMu, storageFile, cid,
                   closed, out, snap, tdCount, monVars, creq, cmds, emitted,
                   mainVars, agentVars, execVars, reportVars, wr>>

\* handleWebSocket, lines 224-230
DashWelcome(s) ==
    /\ pc[s] = "dashWelcome"
    /\ out' = WriteJSON(out, closed, s,
                        Msg("dashboard-welcome", "", "dashboard", "", "", 0, now))
    /\ pc' = [pc EXCEPT ![s] = "dashRead"]
    /\ UNCHANGED <<timeVars, regVars, dashboardConns, clientsMu, storageFile, cid,
                   closed, snap, tdCount, monVars, creq, cmds, emitted,
                   mainVars, agentVars, execVars, reportVars, ioVars>>

\* handleWebSocket, lines 233-247: read error on a dashboard socket
DashClose(s) ==
    /\ pc[s] = "dashRead"
    /\ dashboardConns' = dashboardConns \ {s}
    /\ closed' = [closed EXCEPT ![s] = TRUE]
    /\ pc' = [pc EXCEPT ![s] = "done"]
    /\ UNCHANGED <<timeVars, regVars, clientsMu, storageFile, cid, out, snap,
                   tdCount, monVars, creq, cmds, emitted,
                   mainVars, agentVars, execVars, reportVars, ioVars>>

\* ---------------------------------------------------------------- heartbeat monitor
\* Expired allowing one more period of the ticker
ExpiredLate(t) ==
    {id \in DOMAIN clientsInfo :
        /\ clientsInfo[id].status = "connected"
        /\ t - clientsInfo[id].lastHeartbeat > HeartbeatTimeout + MonitorPeriod}

\* Expired without the test of the status
ExpiredAnyStatus(t) ==
    {id \in DOMAIN clientsInfo :
        t - clientsInfo[id].lastHeartbeat > HeartbeatTimeout}

\* Expired measuring from firstSeen
ExpiredSinceFirstSeen(t) ==
    {id \in DOMAIN clientsInfo :
        /\ clientsInfo[id].status = "connected"
        /\ t - clientsInfo[id].firstSeen > HeartbeatTimeout}

\* the ids the scan of lines 132-148 demotes
Expired(t) ==
    {id \in DOMAIN clientsInfo :
        /\ clientsInfo[id].status = "connected"
        /\ t - clientsInfo[id].lastHeartbeat > HeartbeatTimeout}

\* MonitorTick without the removal from m.clients
MonitorTickKeepingSocket ==
    /\ mpc = "idle"
    /\ now = nextTick
    /\ CanLock
    /\ LET D == Expired(now) IN
       /\ clientsInfo' = [id \in DOMAIN clientsInfo |->
                            IF id \in D
                            THEN [clientsInfo[id] EXCEPT !.status = "disconnected",
                                                         !.lastSeen = now]
                            ELSE clientsInfo[id]]
       /\ mdisc' = D
       /\ mpc' = IF D = {} THEN "idle" ELSE "notify"
    /\ mnow' = now
    /\ nextTick' = nextTick + MonitorPeriod
    /\ UNCHANGED <<now, clients, dashboardConns, clientsMu, storageFile, sockVars,
                   msnap, creq, cmds, emitted,
                   mainVars, agentVars, execVars, reportVars, ioVars>>

\* monitorHeartbeats, lines 127-150: one tick of the ticker
MonitorTick ==
    /\ mpc = "idle"
    /\ now = nextTick
    /\ CanLock
    /\ LET D == Expired(now) IN
       /\ clientsInfo' = [id \in DOMAIN clientsInfo |->
                            IF id \in D
                            THEN [clientsInfo[id] EXCEPT !.status = "disconnected",
                                                         !.lastSeen = now]
                            ELSE clientsInfo[id]]
       /\ closed' = [s \in DOMAIN closed |->
                        closed[s] \/ \E id \in D \cap DOMAIN clients : clients[id] = s]
       /\ clients' = [id \in (DOMAIN clients) \ D |-> clients[id]]
       /\ mdisc' = D
       /\ mpc' = IF D = {} THEN "idle" ELSE "notify"
    /\ mnow' = now
    /\ nextTick' = nextTick + MonitorPeriod
    /\ UNCHANGED <<now, dashboardConns, clientsMu, storageFile, pc, cid, out, snap,
                   tdCount, msnap, creq, cmds, emitted,
                   mainVars, agentVars, execVars, reportVars, ioVars>>

\* monitorHeartbeats, lines 153-166; len(m.clients) is read without the lock
MonitorNotify ==
    /\ mpc = "notify"
    /\ \E id \in mdisc :
          /\ \E failed \in SUBSET dashboardConns :
                BroadcastToDashboard(Msg("client-disconnected", id, "heartbeat_timeout",
                                         "", "", Cardinality(DOMAIN clients), mnow),
                                     failed)
          /\ mdisc' = mdisc \ {id}
          /\ mpc' = IF mdisc' = {} THEN "save" ELSE "notify"
    /\ UNCHANGED <<timeVars, regVars, clientsMu, storageFile, pc, cid, closed, snap,
                   tdCount, mnow, msnap, creq, cmds,
                   mainVars, agentVars, execVars, reportVars, ioVars>>

\* monitorHeartbeats, lines 168-170, and saveClientData, lines 104-109
MonitorSaveSnapshot ==
    /\ mpc = "save"
    /\ CanRLock
    /\ msnap' \in Snapshots
    /\ mpc' = "write"
    /\ UNCHANGED <<timeVars, regVars, dashboardConns, clientsMu, storageFile,
                   sockVars, mdisc, mnow, creq, cmds, emitted,
                   mainVars, agentVars, execVars, reportVars, ioVars>>

\* saveClientData, lines 111-120, in the monitor
MonitorSaveWrite ==
    /\ mpc = "write"
    /\ storageFile' = [exists |-> TRUE, data |-> msnap]
    /\ msnap' = <<>>
    /\ mpc' = "idle"
    /\ UNCHANGED <<timeVars, regVars, dashboardConns, clientsMu, sockVars, mdisc,
                   mnow, creq, cmds, emitted,
                   mainVars, agentVars, execVars, reportVars, ioVars>>

\* Time passes only while every task waits: a handler in conn.ReadJSON, the
\* monitor on its ticker, no command request in progress.
Waiting ==
    /\ \A s \in Socks : pc[s] \in {"idle", "read", "dashRead", "done", "panicked"}
    /\ \A r \in Reqs : creq[r].pc = "idle"
    /\ mpc = "idle"

\* The clock. A tick that is due is handled before the clock moves on.
AdvanceTime(d, maxT) ==
    /\ Waiting
    /\ now < nextTick
    /\ now < maxT
    /\ now' = Min(now + d, nextTick)
    /\ UNCHANGED <<nextTick, regVars, dashboardConns, clientsMu, storageFile,
                   sockVars, monVars, creq, cmds, emitted,
                   mainVars, agentVars, execVars, reportVars, ioVars>>

\* ---------------------------------------------------------------- command dispatch
\* Targets falling back to every client when the target is not connected
TargetsOrAll(t) ==
    IF t \in DOMAIN clients THEN {t} ELSE DOMAIN clients

\* the sockets the loops of lines 401-415 write to
Targets(t) ==
    IF t = "all" \/ t = ""
    THEN DOMAIN clients
    ELSE IF t \in DOMAIN clients THEN {t} ELSE {}

\* CmdStart without clientsMu.RLock
CmdStartUnlocked(r, a, t) ==
    /\ creq[r].pc = "idle"
    /\ cmds < MaxCmds
    /\ creq' = [creq EXCEPT ![r] = [pc |-> "send", action |-> a, target |-> t,
                                    todo |-> Targets(t), sentTo |-> {}, reply |-> ""]]
    /\ cmds' = cmds + 1
    /\ UNCHANGED <<timeVars, regVars, dashboardConns, clientsMu, storageFile, sockVars,
                   monVars, emitted,
                   mainVars, agentVars, execVars, reportVars, ioVars>>

\* handleAPICommand, lines 727-739, and broadcastCommand, lines 391-399
CmdStart(r, a, t) ==
    /\ creq[r].pc = "idle"
    /\ cmds < MaxCmds
    /\ CanRLock
    /\ clientsMu' = [clientsMu EXCEPT !.readers = @ \cup {r}]
    /\ creq' = [creq EXCEPT ![r] = [pc |-> "send", action |-> a, target |-> t,
                                    todo |-> Targets(t), sentTo |-> {}, reply |-> ""]]
    /\ cmds' = cmds + 1
    /\ UNCHANGED <<timeVars, regVars, dashboardConns, storageFile, sockVars, monVars,
                   emitted,
                   mainVars, agentVars, execVars, reportVars, ioVars>>

\* broadcastCommand, lines 401-415: one conn.WriteJSON of the command frame
CmdWrite(r, id) ==
    /\ creq[r].pc = "send"
    /\ id \in creq[r].todo
    /\ out' = WriteJSON(out, closed, clients[id],
                        Msg("command", "", "", creq[r].action, creq[r].target, 0, now))
    /\ creq' = [creq EXCEPT ![r].todo = @ \ {id},
                            ![r].sentTo = @ \cup {clients[id]}]
    /\ UNCHANGED <<timeVars, regVars, dashboardConns, clientsMu, storageFile, pc, cid,
                   closed, snap, tdCount, monVars, cmds, emitted,
                   mainVars, agentVars, execVars, reportVars, ioVars>>

\* broadcastCommand, lines 403-404 and 410-411: request r enters conn.WriteJSON
\* on the socket of id with the command frame
CmdWriteBegin(r, id) ==
    /\ creq[r].pc = "send"
    /\ id \in creq[r].todo
    /\ wr' = wr \cup {<<r, clients[id]>>}
    /\ creq' = [creq EXCEPT ![r].pc = "writing", ![r].todo = @ \ {id}]
    /\ UNCHANGED <<timeVars, regVars, dashboardConns, clientsMu, storageFile, sockVars,
                   monVars, cmds, emitted, mainVars, agentVars, execVars, reportVars,
                   dashboardMu>>

\* broadcastCommand, lines 404 and 411: conn.WriteJSON of the command frame returns
CmdWriteEnd(r) ==
    /\ creq[r].pc = "writing"
    /\ \E w \in wr :
          /\ w[1] = r
          /\ out' = WriteJSON(out, closed, w[2],
                              Msg("command", "", "", creq[r].action, creq[r].target,
                                  0, now))
          /\ creq' = [creq EXCEPT ![r].pc = "send", ![r].sentTo = @ \cup {w[2]}]
          /\ wr' = wr \ {w}
    /\ UNCHANGED <<timeVars, regVars, dashboardConns, clientsMu, storageFile, pc, cid,
                   closed, snap, tdCount, monVars, cmds, emitted,
                   mainVars, agentVars, execVars, reportVars, dashboardMu>>

\* broadcastCommand, line 418, and broadcastToDashboard, lines 433-434: the
\* command-sent event is being written to a dashboard socket and conn.WriteJSON
\* has not returned; the read lock taken at line 398 is released only by the
\* deferred RUnlock of line 399
CmdStall(r) ==
    /\ creq[r].pc = "send"
    /\ creq[r].todo = {}
    /\ dashboardConns # {}
    /\ creq' = [creq EXCEPT ![r].pc = "dashWrite"]
    /\ UNCHANGED <<timeVars, regVars, dashboardConns, clientsMu, storageFile, sockVars,
                   monVars, cmds, emitted, mainVars, agentVars, execVars, reportVars, ioVars>>

\* broadcastToDashboard, line 434: the stalled conn.WriteJSON goes on
CmdResume(r) ==
    /\ creq[r].pc = "dashWrite"
    /\ creq' = [creq EXCEPT ![r].pc = "send"]
    /\ UNCHANGED <<timeVars, regVars, dashboardConns, clientsMu, storageFile, sockVars,
                   monVars, cmds, emitted, mainVars, agentVars, execVars, reportVars, ioVars>>

\* CmdFinish telling the dashboards only of a command that was written to a client
CmdFinishWhenSent(r) ==
    /\ creq[r].pc = "send"
    /\ creq[r].todo = {}
    /\ IF creq[r].sentTo = {}
       THEN UNCHANGED <<emitted, dashboardConns, out>>
       ELSE \E failed \in SUBSET dashboardConns :
               BroadcastToDashboard(Msg("command-sent", "", "", creq[r].action,
                                        creq[r].target, Cardinality(DOMAIN clients), now),
                                    failed)
    /\ clientsMu' = [clientsMu EXCEPT !.readers = @ \ {r}]
    /\ creq' = [creq EXCEPT ![r] = [IdleReq EXCEPT !.reply = "sent"]]
    /\ UNCHANGED <<timeVars, regVars, storageFile, pc, cid, closed, snap, tdCount,
                   monVars, cmds,
                   mainVars, agentVars, execVars, reportVars, ioVars>>

\* broadcastCommand, lines 417-427, the deferred RUnlock, and the reply of
\* handleAPICommand, lines 740-741
CmdFinish(r) ==
    /\ creq[r].pc = "send"
    /\ creq[r].todo = {}
    /\ \E failed \in SUBSET dashboardConns :
          BroadcastToDashboard(Msg("command-sent", "", "", creq[r].action,
                                   creq[r].target, Cardinality(DOMAIN clients), now),
                               failed)
    /\ clientsMu' = [clientsMu EXCEPT !.readers = @ \ {r}]
    /\ creq' = [creq EXCEPT ![r] = [IdleReq EXCEPT !.reply = "sent"]]
    /\ UNCHANGED <<timeVars, regVars, storageFile, pc, cid, closed, snap, tdCount,
                   monVars, cmds,
                   mainVars, agentVars, execVars, reportVars, ioVars>>

\* ---------------------------------------------------------------- coordinator process
\* main, lines 775-776: the shutdown signal arrives
Signal ==
    /\ mainpc = "serve"
    /\ mainpc' = "cleanup"
    /\ UNCHANGED <<timeVars, regVars, dashboardConns, clientsMu, storageFile, sockVars,
                   monVars, creq, cmds, emitted, restarts, agentVars, execVars, reportVars, ioVars>>

\* cleanup, lines 177-182: os.Remove of the snapshot file
CleanupRemove ==
    /\ mainpc = "cleanup"
    /\ storageFile' = NoFile
    /\ mainpc' = "closeClients"
    /\ UNCHANGED <<timeVars, regVars, dashboardConns, clientsMu, sockVars, monVars,
                   creq, cmds, emitted, restarts, agentVars, execVars, reportVars, ioVars>>

\* cleanup, lines 184-190: every socket of m.clients is closed under clientsMu.Lock
CleanupCloseClients ==
    /\ mainpc = "closeClients"
    /\ CanLock
    /\ closed' = [s \in DOMAIN closed |->
                     closed[s] \/ \E id \in DOMAIN clients : clients[id] = s]
    /\ mainpc' = "closeDashboards"
    /\ UNCHANGED <<timeVars, regVars, dashboardConns, clientsMu, storageFile, pc, cid,
                   out, snap, tdCount, monVars, creq, cmds, emitted, restarts,
                   agentVars, execVars, reportVars, ioVars>>

\* cleanup, lines 192-199: every dashboard socket is closed
CleanupCloseDashboards ==
    /\ mainpc = "closeDashboards"
    /\ closed' = [s \in DOMAIN closed |-> closed[s] \/ s \in dashboardConns]
    /\ mainpc' = "return"
    /\ UNCHANGED <<timeVars, regVars, dashboardConns, clientsMu, storageFile, pc, cid,
                   out, snap, tdCount, monVars, creq, cmds, emitted, restarts,
                   agentVars, execVars, reportVars, ioVars>>

\* main, lines 781-783: main returns and the process ends with all its goroutines
Exit ==
    /\ mainpc = "return"
    /\ mainpc' = "exited"
    /\ UNCHANGED <<timeVars, regVars, dashboardConns, clientsMu, storageFile, sockVars,
                   monVars, creq, cmds, emitted, restarts, agentVars, execVars, reportVars, ioVars>>

\* the process is killed while it serves: no cleanup runs
Kill ==
    /\ mainpc = "serve"
    /\ mainpc' = "killed"
    /\ UNCHANGED <<timeVars, regVars, dashboardConns, clientsMu, storageFile, sockVars,
                   monVars, creq, cmds, emitted, restarts, agentVars, execVars, reportVars, ioVars>>

\* main, line 751, and NewMaster: a new process is started, CoarseStep after the
\* old one ended; of the old process only the snapshot file is left
Restart ==
    /\ mainpc \in {"exited", "killed"}
    /\ restarts < MaxRestarts
    /\ restarts' = restarts + 1
    /\ mainpc' = "serve"
    /\ now' = now + CoarseStep
    /\ nextTick' = now' + MonitorPeriod
    /\ clients' = EmptyMap
    /\ clientsInfo' = LoadClientData(storageFile)
    /\ dashboardConns' = {}
    /\ clientsMu' = [writer |-> 0, readers |-> {}]
    /\ pc' = [s \in Socks |-> "idle"]
    /\ cid' = [s \in Socks |-> ""]
    /\ closed' = [s \in Socks |-> FALSE]
    /\ out' = [s \in Socks |-> <<>>]
    /\ snap' = [s \in Socks |-> <<>>]
    /\ tdCount' = [s \in Socks |-> 0]
    /\ mpc' = "idle"
    /\ mdisc' = {}
    /\ mnow' = 0
    /\ msnap' = <<>>
    /\ creq' = [r \in Reqs |-> IdleReq]
    /\ cmds' = 0
    /\ emitted' = EmptyBag
    /\ UNCHANGED <<storageFile, agentVars, execVars, reportVars, ioVars>>

\* the goroutines of the process run until the process has ended
Running == mainpc \notin {"exited", "killed"}

\* ---------------------------------------------------------------- agent
\* the agent process runs until main returns or os.Exit is called
AgentRunning == amain \notin {"exited", "exit1"}

\* a backoff that grows by one second instead of doubling
NextBackoffLinear(b) == Min(b + 1, MaxBackoff)

\* the doubling without the cap of lines 167-169
NextBackoffUncapped(b) == b * 2

\* connectWithRetry, lines 165-169
NextBackoff(b) == Min(b * 2, MaxBackoff)

\* connectWithRetry, lines 141-151: the shutdown check at the top of the loop
LoopCheck(k) ==
    /\ AgentRunning
    /\ run[k].pc = "check"
    /\ IF shutdown
       THEN /\ run' = [run EXCEPT ![k].pc = "end"]
            /\ UNCHANGED retrying
       ELSE /\ run' = [run EXCEPT ![k].pc = "dial"]
            /\ retrying' = TRUE
    /\ UNCHANGED <<masterVars, execVars, beatVars, amain, lsn, conn, link, shouldNotReconnect, shutdown,
                   sender, waited, dials>>

\* connectWithRetry, lines 152-155, and connect, lines 118-135: the dial fails, or
\* the coordinator upgrades the socket and will accept or reject the registration
Dial(k, res) ==
    /\ AgentRunning
    /\ run[k].pc = "dial"
    /\ dials < MaxDials
    /\ dials' = dials + 1
    /\ IF res = "fail"
       THEN /\ run' = [run EXCEPT ![k].pc = "sleep", ![k].fails = @ + 1,
                                  ![k].wait = run[k].backoff]
            /\ UNCHANGED <<conn, link>>
       ELSE /\ run' = [run EXCEPT ![k].pc = "connected"]
            /\ conn' = k
            /\ link' = [link EXCEPT ![k] = [NoLink EXCEPT !.mode = res]]
    /\ UNCHANGED <<masterVars, execVars, beatVars, amain, lsn, retrying, shouldNotReconnect, shutdown,
                   sender, waited>>

\* connectWithRetry, lines 157-170: the wait of backoff has passed
SleepDone(k) ==
    /\ AgentRunning
    /\ run[k].pc = "sleep"
    /\ run' = [run EXCEPT ![k].pc = "check", ![k].backoff = NextBackoff(@)]
    /\ UNCHANGED <<masterVars, execVars, beatVars, amain, lsn, conn, link, retrying, shouldNotReconnect,
                   shutdown, sender, waited, dials>>

\* connectWithRetry, lines 160-162: shutdown is closed during the wait
SleepShutdown(k) ==
    /\ AgentRunning
    /\ run[k].pc = "sleep"
    /\ shutdown
    /\ run' = [run EXCEPT ![k].pc = "end"]
    /\ UNCHANGED <<masterVars, execVars, beatVars, amain, lsn, conn, link, retrying, shouldNotReconnect,
                   shutdown, sender, waited, dials>>

\* connectWithRetry, lines 173-174
Connected(k) ==
    /\ AgentRunning
    /\ run[k].pc = "connected"
    /\ retrying' = FALSE
    /\ run' = [run EXCEPT ![k].pc = "status"]
    /\ UNCHANGED <<masterVars, execVars, beatVars, amain, lsn, conn, link, shouldNotReconnect, shutdown,
                   sender, waited, dials>>

\* the outcomes of conn.WriteJSON on the agent's connection: it can fail once the
\* connection has been closed by either side, and fails when closed locally
WriteCan(ok) ==
    /\ ok => ~link[conn].localClosed
    /\ ~ok => link[conn].peerClosed \/ link[conn].localClosed

\* where sendStatus goes after a failed write, lines 507-518
AfterFailedWrite(signal, done) ==
    IF ~retrying /\ ~shouldNotReconnect THEN signal ELSE done

\* connectWithRetry, line 175, and sendStatus, lines 492-518: the "connected" status
SendStatus(k) ==
    /\ AgentRunning
    /\ run[k].pc = "status"
    /\ IF conn = 0
       THEN run' = [run EXCEPT ![k].pc = "spawn"]
       ELSE \E ok \in BOOLEAN :
               /\ WriteCan(ok)
               /\ run' = [run EXCEPT ![k].pc =
                             IF ok THEN "spawn" ELSE AfterFailedWrite("signal", "spawn")]
    /\ UNCHANGED <<masterVars, execVars, beatVars, amain, lsn, conn, link, retrying, shouldNotReconnect,
                   shutdown, sender, waited, dials>>

\* sendStatus, lines 512-514: shutdown is closed while the reconnect signal waits
LoopSignalShutdown(k) ==
    /\ AgentRunning
    /\ run[k].pc = "signal"
    /\ shutdown
    /\ run' = [run EXCEPT ![k].pc = "spawn"]
    /\ UNCHANGED <<masterVars, execVars, beatVars, amain, lsn, conn, link, retrying, shouldNotReconnect,
                   shutdown, sender, waited, dials>>

\* connectWithRetry, lines 177-182: the listen goroutine is started
Spawn(k) ==
    /\ AgentRunning
    /\ run[k].pc = "spawn"
    /\ run' = [run EXCEPT ![k].pc = "end"]
    /\ lsn' = [lsn EXCEPT ![k].pc = "check"]
    /\ hb' = [hb EXCEPT ![k] = [NoBeat EXCEPT !.pc = "wait"]]
    /\ UNCHANGED <<masterVars, execVars, amain, conn, link, retrying, shouldNotReconnect,
                   shutdown, sender, waited, dials>>

\* listen, lines 187-198: the shutdown check, then the call of ReadJSON on the
\* connection that c.conn holds at that moment
ListenCheck(k) ==
    /\ AgentRunning
    /\ lsn[k].pc = "check"
    /\ lsn' = [lsn EXCEPT ![k].pc = IF shutdown THEN "end" ELSE "read", ![k].on = conn]
    /\ UNCHANGED <<masterVars, execVars, beatVars, amain, run, conn, link, retrying, shouldNotReconnect,
                   shutdown, sender, waited, dials>>

\* listen, lines 198-199: ReadJSON returns a frame, or an error once the
\* connection is closed and no frame is left
ListenRead(k) ==
    /\ AgentRunning
    /\ lsn[k].pc = "read"
    /\ LET c == lsn[k].on IN
       IF link[c].inbox # <<>>
       THEN /\ lsn' = [lsn EXCEPT ![k].pc = "handle", ![k].msg = Head(link[c].inbox)]
            /\ link' = [link EXCEPT ![c].inbox = Tail(@)]
       ELSE /\ link[c].peerClosed \/ link[c].localClosed
            /\ lsn' = [lsn EXCEPT ![k].pc = "readErr"]
            /\ UNCHANGED link
    /\ UNCHANGED <<masterVars, execVars, beatVars, amain, run, conn, retrying, shouldNotReconnect,
                   shutdown, sender, waited, dials>>

\* handleMessage, lines 225-232, and handleError, lines 249-265: os.Exit on
\* duplicate_connection
ListenHandle(k) ==
    /\ AgentRunning
    /\ lsn[k].pc = "handle"
    /\ IF lsn[k].msg = "duplicate_connection"
       THEN /\ shouldNotReconnect' = TRUE
            /\ amain' = "exit1"
            /\ UNCHANGED lsn
       ELSE /\ lsn' = [lsn EXCEPT ![k].pc = "check", ![k].msg = ""]
            /\ UNCHANGED <<shouldNotReconnect, amain>>
    /\ UNCHANGED <<masterVars, execVars, beatVars, run, conn, link, retrying, shutdown, sender, waited,
                   dials>>

\* ListenError returning without the reconnect signal
ListenErrorSilent(k) ==
    /\ AgentRunning
    /\ lsn[k].pc = "readErr"
    /\ lsn' = [lsn EXCEPT ![k].pc = "end"]
    /\ UNCHANGED <<masterVars, execVars, beatVars, amain, run, conn, link, retrying, shouldNotReconnect,
                   shutdown, sender, waited, dials>>

\* listen, lines 200-219: after a read error
ListenError(k) ==
    /\ AgentRunning
    /\ lsn[k].pc = "readErr"
    /\ lsn' = [lsn EXCEPT ![k].pc =
                  IF shutdown THEN "end" ELSE AfterFailedWrite("signal", "end")]
    /\ UNCHANGED <<masterVars, execVars, beatVars, amain, run, conn, link, retrying, shouldNotReconnect,
                   shutdown, sender, waited, dials>>

\* listen, lines 211-214: shutdown is closed while the reconnect signal waits
ListenSignalShutdown(k) ==
    /\ AgentRunning
    /\ lsn[k].pc = "signal"
    /\ shutdown
    /\ lsn' = [lsn EXCEPT ![k].pc = "end"]
    /\ UNCHANGED <<masterVars, execVars, beatVars, amain, run, conn, link, retrying, shouldNotReconnect,
                   shutdown, sender, waited, dials>>

\* the connectWithRetry that main starts next
FreeRun == CHOOSE j \in Runs : run[j].pc = "off" /\ \A i \in Runs : i < j => run[i].pc # "off"

\* main, lines 613-615: the reconnect signal of connectWithRetry k (sent in
\* sendStatus) is received and a connectWithRetry is started
MainReconnectFromLoop(k) ==
    /\ amain = "select"
    /\ run[k].pc = "signal"
    /\ \E j \in Runs : run[j].pc = "off"
    /\ run' = [run EXCEPT ![k].pc = "spawn", ![FreeRun].pc = "check"]
    /\ UNCHANGED <<masterVars, execVars, beatVars, amain, lsn, conn, link, retrying, shouldNotReconnect,
                   shutdown, sender, waited, dials>>

\* main, lines 613-615: the reconnect signal of listen k is received and a
\* connectWithRetry is started
MainReconnectFromListen(k) ==
    /\ amain = "select"
    /\ lsn[k].pc = "signal"
    /\ \E j \in Runs : run[j].pc = "off"
    /\ lsn' = [lsn EXCEPT ![k].pc = "end"]
    /\ run' = [run EXCEPT ![FreeRun].pc = "check"]
    /\ UNCHANGED <<masterVars, execVars, beatVars, amain, conn, link, retrying, shouldNotReconnect,
                   shutdown, sender, waited, dials>>

\* main, lines 616-617: the interrupt is received
MainInterrupt ==
    /\ amain = "select"
    /\ amain' = "interrupted"
    /\ UNCHANGED <<masterVars, execVars, beatVars, run, lsn, conn, link, retrying, shouldNotReconnect,
                   shutdown, sender, waited, dials>>

\* main, lines 618-628: shutdown is closed and the goroutine that sends the
\* "disconnecting" status is started
MainShutdown ==
    /\ amain = "interrupted"
    /\ retrying' = TRUE
    /\ shutdown' = TRUE
    /\ sender' = "write"
    /\ waited' = 0
    /\ amain' = "waitStatus"
    /\ UNCHANGED <<masterVars, execVars, beatVars, run, lsn, conn, link, shouldNotReconnect, dials>>

\* main, line 626, and sendStatus, lines 492-518: the write returns
SenderWrite ==
    /\ AgentRunning
    /\ sender = "write"
    /\ IF conn = 0
       THEN sender' = "done"
       ELSE \E ok \in BOOLEAN :
               /\ WriteCan(ok)
               /\ sender' = IF ok THEN "done" ELSE AfterFailedWrite("signal", "done")
    /\ UNCHANGED <<masterVars, execVars, beatVars, amain, run, lsn, conn, link, retrying,
                   shouldNotReconnect, shutdown, waited, dials>>

\* sendStatus, lines 512-516, and main, line 627
SenderSignalShutdown ==
    /\ AgentRunning
    /\ sender = "signal"
    /\ shutdown
    /\ sender' = "done"
    /\ UNCHANGED <<masterVars, execVars, beatVars, amain, run, lsn, conn, link, retrying,
                   shouldNotReconnect, shutdown, waited, dials>>

\* main, line 633: a second of the timeout passes
Tick ==
    /\ amain = "waitStatus"
    /\ waited < StatusTimeout
    /\ waited' = waited + 1
    /\ UNCHANGED <<masterVars, execVars, beatVars, amain, run, lsn, conn, link, retrying,
                   shouldNotReconnect, shutdown, sender, dials>>

\* main, lines 630-632: done is closed
MainDone ==
    /\ amain = "waitStatus"
    /\ sender = "done"
    /\ amain' = "closing"
    /\ UNCHANGED <<masterVars, execVars, beatVars, run, lsn, conn, link, retrying, shouldNotReconnect,
                   shutdown, sender, waited, dials>>

\* main without the timeout: it goes on only when the write has returned
MainTimeoutWaitsForDone ==
    /\ amain = "waitStatus"
    /\ waited = StatusTimeout
    /\ sender = "done"
    /\ amain' = "closing"
    /\ UNCHANGED <<masterVars, execVars, beatVars, run, lsn, conn, link, retrying, shouldNotReconnect,
                   shutdown, sender, waited, dials>>

\* main, lines 633-636: the timeout fires
MainTimeout ==
    /\ amain = "waitStatus"
    /\ waited = StatusTimeout
    /\ amain' = "closing"
    /\ UNCHANGED <<masterVars, execVars, beatVars, run, lsn, conn, link, retrying, shouldNotReconnect,
                   shutdown, sender, waited, dials>>

\* main, lines 638-640, and close, lines 553-557: the socket is closed and main
\* returns
MainClose ==
    /\ amain = "closing"
    /\ link' = IF conn = 0 THEN link ELSE [link EXCEPT ![conn].localClosed = TRUE]
    /\ amain' = "exited"
    /\ UNCHANGED <<masterVars, execVars, beatVars, run, lsn, conn, retrying, shouldNotReconnect, shutdown,
                   sender, waited, dials>>

\* the coordinator's handler of the agent's socket: the welcome frame of an
\* accepted registration; the duplicate_connection error frame and the close of a
\* rejected one
PeerRespond(k) ==
    /\ link[k].mode \in {"accept", "reject"}
    /\ link' = [link EXCEPT ![k] =
                   IF link[k].mode = "accept"
                   THEN [@ EXCEPT !.mode = "accepted", !.inbox = Append(@, "welcome")]
                   ELSE [@ EXCEPT !.mode = "rejected",
                                  !.inbox = Append(@, "duplicate_connection"),
                                  !.peerClosed = TRUE]]
    /\ UNCHANGED <<masterVars, execVars, beatVars, amain, run, lsn, conn, retrying, shouldNotReconnect,
                   shutdown, sender, waited, dials>>

\* the coordinator closes the socket of a registered agent, or the connection is
\* lost
PeerDrop(k) ==
    /\ link[k].mode = "accepted"
    /\ ~link[k].peerClosed
    /\ link' = [link EXCEPT ![k].peerClosed = TRUE]
    /\ UNCHANGED <<masterVars, execVars, beatVars, amain, run, lsn, conn, retrying, shouldNotReconnect,
                   shutdown, sender, waited, dials>>

\* ---------------------------------------------------------------- agent heartbeat
\* conn.WriteJSON on connection c of the agent: it can fail once the connection
\* has been closed by either side, and fails when closed locally
WriteCanOn(c, ok) ==
    /\ ok => ~link[c].localClosed
    /\ ~ok => link[c].peerClosed \/ link[c].localClosed

\* startHeartbeat, lines 523 and 528: the ticker fires; its channel holds one tick
HbTickFire(k) ==
    /\ AgentRunning
    /\ hb[k].pc \in {"wait", "write"}
    /\ ~hb[k].tick
    /\ hb' = [hb EXCEPT ![k].tick = TRUE]
    /\ UNCHANGED <<masterVars, execVars, amain, run, lsn, conn, link, retrying,
                   shouldNotReconnect, shutdown, sender, waited, dials>>

\* startHeartbeat, lines 527-549: the select returns with one of its cases that
\* are ready, the tick or the closed shutdown channel (c.done is never closed);
\* on a tick the frame is given to conn.WriteJSON of the connection c.conn holds
HbSelect(k, branch) ==
    /\ AgentRunning
    /\ hb[k].pc = "wait"
    /\ IF branch = "tick"
       THEN /\ hb[k].tick
            /\ hb' = [hb EXCEPT ![k].tick = FALSE,
                                ![k].pc = IF conn = 0 THEN "wait" ELSE "write",
                                ![k].on = conn]
       ELSE /\ shutdown
            /\ hb' = [hb EXCEPT ![k].pc = "end"]
    /\ UNCHANGED <<masterVars, execVars, amain, run, lsn, conn, link, retrying,
                   shouldNotReconnect, shutdown, sender, waited, dials>>

\* startHeartbeat, lines 540-543: the write returns; an error ends the loop
HbWrite(k) ==
    /\ AgentRunning
    /\ hb[k].pc = "write"
    /\ \E ok \in BOOLEAN :
          /\ WriteCanOn(hb[k].on, ok)
          /\ hb' = [hb EXCEPT ![k].pc = IF ok THEN "wait" ELSE "end"]
    /\ UNCHANGED <<masterVars, execVars, amain, run, lsn, conn, link, retrying,
                   shouldNotReconnect, shutdown, sender, waited, dials>>

\* ---------------------------------------------------------------- agent commands
\* handleMessage, lines 236-239: a target that is absent from the frame is read
\* as the empty string
FrameTarget(f) == IF f.target = NoTarget THEN "" ELSE f.target

\* handleMessage, line 242
Accepts(f) ==
    LET target == FrameTarget(f) IN target = "all" \/ target = "" \/ target = OwnId

\* Invoked starting the folder operation for an action it does not know
InvokedForUnknown(action, F) ==
    CASE action = "setup" -> <<"folder">>
      [] action = "open-vscode" -> <<"editor">>
      [] action = "open-chrome" -> <<"browser">>
      [] action = "setupAll" ->
            IF "folder" \in F THEN <<"folder">> ELSE <<"folder", "editor", "browser">>
      [] action = "clear" -> <<"clear">>
      [] OTHER -> <<"folder">>

\* executeCommand, lines 281-323, and setupAllAction, lines 391-419: the
\* LocalActions invoked for an action, in order, when those in F fail
Invoked(action, F) ==
    CASE action = "setup" -> <<"folder">>
      [] action = "open-vscode" -> <<"editor">>
      [] action = "open-chrome" -> <<"browser">>
      [] action = "setupAll" ->
            IF "folder" \in F THEN <<"folder">> ELSE <<"folder", "editor", "browser">>
      [] action = "clear" -> <<"clear">>
      [] OTHER -> <<>>

\* ActionError with setupAll returning the error of any of its steps
ActionErrorOfAnyStep(action, F) ==
    CASE action = "setup" /\ "folder" \in F -> "error creating folder"
      [] action = "open-vscode" /\ "editor" \in F -> "error opening VS Code"
      [] action = "open-chrome" /\ "browser" \in F -> "error opening browser"
      [] action = "setupAll" /\ "folder" \in F -> "setup failed"
      [] action = "setupAll" /\ "folder" \notin F /\ "editor" \in F -> "error opening VS Code"
      [] action = "setupAll" /\ {"folder", "editor"} \cap F = {} /\ "browser" \in F ->
            "error opening browser"
      [] action = "clear" /\ "clear" \in F -> "error clearing environment"
      [] OTHER -> ""

\* the error the action function returns (errorToString of it): setupEnvironment,
\* lines 341-359, openVSCodeAction, 361-377, openChromeAction, 379-389,
\* setupAllAction, 391-419, clearEnvironmentAction, 421-431
ActionError(action, F) ==
    CASE action = "setup" /\ "folder" \in F -> "error creating folder"
      [] action = "open-vscode" /\ "editor" \in F -> "error opening VS Code"
      [] action = "open-chrome" /\ "browser" \in F -> "error opening browser"
      [] action = "setupAll" /\ "folder" \in F -> "setup failed"
      [] action = "clear" /\ "clear" \in F -> "error clearing environment"
      [] OTHER -> ""

\* executeCommand, lines 281-323: the result map
Result(action, F) ==
    IF action \in KnownActions
    THEN [status |-> "completed", error |-> ActionError(action, F)]
    ELSE [status |-> "error", error |-> "unknown command"]

NoResult == [status |-> "", error |-> ""]

\* sendActionStatus, lines 460-490: the frame handed to conn.WriteJSON, and
\* whether the write succeeded
ActionStatus(action, status, error, ok) ==
    [action |-> action, status |-> status, error |-> error, written |-> ok]

\* listen, line 198: conn.ReadJSON returns a command frame
ExecRecv(a, t) ==
    /\ xpc = "read"
    /\ xcount < MaxFrames
    /\ xcount' = xcount + 1
    /\ xframe' = [action |-> a, target |-> t]
    /\ xsent' = <<>>
    /\ xran' = <<>>
    /\ xres' = NoResult
    /\ xpc' = "handle"
    /\ UNCHANGED <<masterVars, agentVars, xdone>>

\* ExecFilter accepting every target
ExecFilterAny ==
    /\ xpc = "handle"
    /\ xpc' = "start"
    /\ UNCHANGED <<masterVars, agentVars, xframe, xsent, xran, xres, xcount, xdone>>

\* handleMessage, lines 233-245
ExecFilter ==
    /\ xpc = "handle"
    /\ xpc' = IF Accepts(xframe) THEN "start" ELSE "read"
    /\ UNCHANGED <<masterVars, agentVars, xframe, xsent, xran, xres, xcount, xdone>>

\* ExecRunning going on to the action without the frame
ExecRunningSilent ==
    /\ xpc = "start"
    /\ xpc' = "act"
    /\ UNCHANGED <<masterVars, agentVars, xframe, xsent, xran, xres, xcount, xdone>>

\* executeCommand, lines 273-276
ExecRunning ==
    /\ xpc = "start"
    /\ \E ok \in BOOLEAN :
          xsent' = Append(xsent, ActionStatus(xframe.action, "running", "", ok))
    /\ xpc' = "act"
    /\ UNCHANGED <<masterVars, agentVars, xframe, xran, xres, xcount, xdone>>

\* executeCommand, lines 278-323: the action runs; the LocalActions in F fail
ExecAct(F) ==
    /\ xpc = "act"
    /\ xran' = [i \in 1..Len(Invoked(xframe.action, F)) |->
                  [op |-> Invoked(xframe.action, F)[i],
                   ok |-> Invoked(xframe.action, F)[i] \notin F]]
    /\ xres' = Result(xframe.action, F)
    /\ xpc' = "report"
    /\ UNCHANGED <<masterVars, agentVars, xframe, xsent, xcount, xdone>>

\* executeCommand, lines 325-338
FinalStatus(res) ==
    IF res.status = "error" THEN "failed"
    ELSE IF res.error # "" THEN "failed" ELSE "success"

\* executeCommand, lines 325-339, then listen reads again
ExecReport ==
    /\ xpc = "report"
    /\ \E ok \in BOOLEAN :
          xsent' = Append(xsent, ActionStatus(xframe.action, FinalStatus(xres),
                                              xres.error, ok))
    /\ xdone' = Append(xdone, FinalStatus(xres))
    /\ xpc' = "read"
    /\ UNCHANGED <<masterVars, agentVars, xframe, xran, xres, xcount>>

\* ---------------------------------------------------------------- specifications
Session(s) ==
    \/ Register(s)
    \/ SaveSnapshot(s)
    \/ SaveWrite(s)
    \/ NotifyConnected(s)
    \/ Welcome(s)
    \/ RecvHeartbeat(s)
    \/ HandleHeartbeat(s)
    \/ Teardown(s)
    \/ NotifyDisconnected(s)

Handler(s) ==
    \/ Session(s)
    \/ RejectSend(s)

Monitor ==
    \/ MonitorTick
    \/ MonitorNotify
    \/ MonitorSaveSnapshot
    \/ MonitorSaveWrite

\* agents of one id, the heartbeat monitor, the clock in steps of one tick
Next ==
    \/ \E s \in Socks, id \in RegIds : Connect(s, id, "")
    \/ \E s \in Socks : Handler(s)
    \/ Monitor
    \/ AdvanceTime(CoarseStep, MaxTime)

Spec == Init /\ [][Next]_vars

\* agents and dashboards, command requests, the clock stopped
NextCmd ==
    \/ \E s \in CmdSocks, id \in AgentIds \cup {""}, auth \in AuthValues :
          Connect(s, id, auth)
    \/ \E s \in CmdSocks : Handler(s)
    \/ \E s \in CmdSocks : DashWelcome(s)
    \/ \E s \in CmdSocks : DashClose(s)
    \/ \E r \in Reqs, a \in CmdActions, t \in CmdTargets : CmdStart(r, a, t)
    \/ \E r \in Reqs, id \in AgentIds : CmdWrite(r, id)
    \/ \E r \in Reqs : CmdFinish(r)

SpecCmd == Init /\ [][NextCmd]_vars

\* one agent that connects during the monitor's first period, the clock in fine
\* steps
NextTimed ==
    \/ \E s \in TimedSocks, id \in AgentIds : now <= MonitorPeriod /\ Connect(s, id, "")
    \/ \E s \in TimedSocks : Session(s)
    \/ Monitor
    \/ AdvanceTime(FineStep, MaxTimedTime)

SpecTimed == Init /\ [][NextTimed]_vars

\* agents with the coordinator process shut down, killed and started again, the
\* clock stopped while a process runs
NextFile ==
    \/ \E s \in CmdSocks, id \in AgentIds : Running /\ Connect(s, id, "")
    \/ \E s \in CmdSocks : Running /\ Handler(s)
    \/ Signal
    \/ CleanupRemove
    \/ CleanupCloseClients
    \/ CleanupCloseDashboards
    \/ Exit
    \/ Kill
    \/ Restart

SpecFile == Init /\ [][NextFile]_vars

\* agents of one id and dashboards, the agents sending action_status frames
NextReport ==
    \/ \E s \in CmdSocks, id \in RegIds, auth \in {"", DashboardSecret} :
          Connect(s, id, auth)
    \/ \E s \in CmdSocks : Handler(s)
    \/ \E s \in CmdSocks : DashWelcome(s)
    \/ \E s \in CmdSocks : DashClose(s)
    \/ \E s \in CmdSocks : RecvReport(s)

SpecReport == Init /\ [][NextReport]_vars

\* one running coordinator with everything that touches the registry: an agent
\* of either id, heartbeats, read errors, the heartbeat monitor, command requests
\* and the clock in steps of one tick
NextRegistry ==
    \/ \E s \in TimedSocks, id \in AgentIds : Connect(s, id, "")
    \/ \E s \in TimedSocks : Session(s)
    \/ Monitor
    \/ AdvanceTime(CoarseStep, MaxTime)
    \/ \E r \in Reqs, a \in CmdActions, t \in CmdTargets : CmdStart(r, a, t)
    \/ \E r \in Reqs, id \in AgentIds : CmdWrite(r, id)
    \/ \E r \in Reqs : CmdFinish(r)

SpecRegistry == Init /\ [][NextRegistry]_vars

\* agents of two ids, with the exclusive section of a handler's teardown taken in
\* two steps so that other tasks run while the lock is held
NextRace ==
    \/ \E s \in CmdSocks, id \in AgentIds : Connect(s, id, "")
    \/ \E s \in CmdSocks : Handler(s)
    \/ \E s \in CmdSocks : TeardownLock(s)
    \/ \E s \in CmdSocks : TeardownLocked(s)

SpecRace == Init /\ [][NextRace]_vars

\* agents, dashboards and command requests, with dashboard writes that stall
NextStall ==
    \/ NextCmd
    \/ \E r \in Reqs : CmdStall(r)
    \/ \E r \in Reqs : CmdResume(r)

SpecStall == Init /\ [][NextStall]_vars

\* the agent while nobody interrupts it: its reconnect loops, its listeners, the
\* main loop's reconnect case and the coordinator's end of its connections
NextAgent ==
    \/ \E k \in Runs : LoopCheck(k)
    \/ \E k \in Runs, res \in {"fail", "accept", "reject"} : Dial(k, res)
    \/ \E k \in Runs : SleepDone(k)
    \/ \E k \in Runs : Connected(k)
    \/ \E k \in Runs : SendStatus(k)
    \/ \E k \in Runs : Spawn(k)
    \/ \E k \in Runs : ListenCheck(k)
    \/ \E k \in Runs : ListenRead(k)
    \/ \E k \in Runs : ListenHandle(k)
    \/ \E k \in Runs : ListenError(k)
    \/ \E k \in Runs : MainReconnectFromLoop(k)
    \/ \E k \in Runs : MainReconnectFromListen(k)
    \/ \E k \in Runs : PeerRespond(k)
    \/ \E k \in Runs : PeerDrop(k)

SpecAgent == Init /\ [][NextAgent]_vars

\* the listen goroutines and the main goroutine are scheduled: a listener that got
\* a read error goes on, and main, waiting in its select, receives a reconnect
\* signal that a listener is sending
SpecAgentLive ==
    /\ SpecAgent
    /\ WF_vars(\E k \in Runs : ListenError(k))
    /\ WF_vars(\E k \in Runs : MainReconnectFromListen(k))

\* main, lines 616-640: what the main goroutine does from the interrupt on
MainStep == MainShutdown \/ Tick \/ MainDone \/ MainTimeout \/ MainClose

\* the agent with the operator's interrupt, which can arrive at any moment of its
\* first MaxShutdownDials connection attempts
NextAgentShutdown ==
    \/ \E k \in Runs : LoopCheck(k)
    \/ \E k \in Runs, res \in {"fail", "accept", "reject"} :
          dials < MaxShutdownDials /\ Dial(k, res)
    \/ \E k \in Runs : SleepDone(k)
    \/ \E k \in Runs : SleepShutdown(k)
    \/ \E k \in Runs : Connected(k)
    \/ \E k \in Runs : SendStatus(k)
    \/ \E k \in Runs : LoopSignalShutdown(k)
    \/ \E k \in Runs : Spawn(k)
    \/ \E k \in Runs : ListenCheck(k)
    \/ \E k \in Runs : ListenRead(k)
    \/ \E k \in Runs : ListenHandle(k)
    \/ \E k \in Runs : ListenError(k)
    \/ \E k \in Runs : ListenSignalShutdown(k)
    \/ \E k \in Runs : MainReconnectFromLoop(k)
    \/ \E k \in Runs : MainReconnectFromListen(k)
    \/ MainInterrupt
    \/ SenderWrite
    \/ SenderSignalShutdown
    \/ MainStep
    \/ \E k \in Runs : PeerRespond(k)
    \/ \E k \in Runs : PeerDrop(k)

\* the main goroutine is scheduled and its timer runs, so from the interrupt on it
\* keeps taking its steps; the write of the status frame is not required to return
SpecAgentFair == Init /\ [][NextAgentShutdown]_vars /\ WF_vars(MainStep)

\* the agent with the operator's interrupt and its heartbeat loops
NextBeatShutdown ==
    \/ \E k \in Runs : LoopCheck(k)
    \/ \E k \in Runs, res \in {"fail", "accept", "reject"} :
          dials < MaxBeatDials /\ Dial(k, res)
    \/ \E k \in Runs : SleepDone(k)
    \/ \E k \in Runs : SleepShutdown(k)
    \/ \E k \in Runs : Connected(k)
    \/ \E k \in Runs : SendStatus(k)
    \/ \E k \in Runs : LoopSignalShutdown(k)
    \/ \E k \in Runs : Spawn(k)
    \/ \E k \in Runs : ListenCheck(k)
    \/ \E k \in Runs : ListenRead(k)
    \/ \E k \in Runs : ListenHandle(k)
    \/ \E k \in Runs : ListenError(k)
    \/ \E k \in Runs : ListenSignalShutdown(k)
    \/ \E k \in Runs : MainReconnectFromLoop(k)
    \/ \E k \in Runs : MainReconnectFromListen(k)
    \/ MainInterrupt
    \/ SenderWrite
    \/ SenderSignalShutdown
    \/ MainStep
    \/ \E k \in Runs : PeerRespond(k)
    \/ \E k \in Runs : PeerDrop(k)
    \/ \E k \in Runs : HbTickFire(k)
    \/ \E k \in Runs, branch \in {"tick", "shutdown"} : HbSelect(k, branch)
    \/ \E k \in Runs : HbWrite(k)

SpecBeatShutdown == Init /\ [][NextBeatShutdown]_vars

\* one agent socket on the coordinator with a command request, both writing to
\* the socket in two steps; and an agent on its first connection with its
\* heartbeat loop and its listener executing setup commands
NextWriters ==
    \/ \E s \in TimedSocks, id \in RegIds : Connect(s, id, "")
    \/ \E s \in TimedSocks : Register(s)
    \/ \E s \in TimedSocks : SaveSnapshot(s)
    \/ \E s \in TimedSocks : SaveWrite(s)
    \/ \E s \in TimedSocks : NotifyConnected(s)
    \/ \E s \in TimedSocks : WelcomeBegin(s)
    \/ \E s \in TimedSocks : WelcomeEnd(s)
    \/ \E r \in Reqs, a \in CmdActions : CmdStart(r, a, "all")
    \/ \E r \in Reqs, id \in RegIds : CmdWriteBegin(r, id)
    \/ \E r \in Reqs : CmdWriteEnd(r)
    \/ \E r \in Reqs : CmdFinish(r)
    \/ \E k \in Runs : LoopCheck(k)
    \/ \E k \in Runs : dials < MaxBeatDials /\ Dial(k, "accept")
    \/ \E k \in Runs : Connected(k)
    \/ \E k \in Runs : SendStatus(k)
    \/ \E k \in Runs : Spawn(k)
    \/ \E k \in Runs : HbTickFire(k)
    \/ \E k \in Runs : HbSelect(k, "tick")
    \/ \E k \in Runs : HbWrite(k)
    \/ \E a \in CmdActions : (\E k \in Runs : lsn[k].pc = "check") /\ ExecRecv(a, "all")
    \/ ExecFilter
    \/ ExecRunning
    \/ \E F \in SUBSET {"folder"} : ExecAct(F)
    \/ ExecReport

SpecWriters == Init /\ [][NextWriters]_vars

\* the agent while nobody interrupts it, with its heartbeat loops, during its
\* first MaxReconnectDials connection attempts
NextBeat ==
    \/ \E k \in Runs : LoopCheck(k)
    \/ \E k \in Runs, res \in {"fail", "accept", "reject"} :
          dials < MaxReconnectDials /\ Dial(k, res)
    \/ \E k \in Runs : SleepDone(k)
    \/ \E k \in Runs : Connected(k)
    \/ \E k \in Runs : SendStatus(k)
    \/ \E k \in Runs : Spawn(k)
    \/ \E k \in Runs : ListenCheck(k)
    \/ \E k \in Runs : ListenRead(k)
    \/ \E k \in Runs : ListenHandle(k)
    \/ \E k \in Runs : ListenError(k)
    \/ \E k \in Runs : MainReconnectFromLoop(k)
    \/ \E k \in Runs : MainReconnectFromListen(k)
    \/ \E k \in Runs : PeerRespond(k)
    \/ \E k \in Runs : PeerDrop(k)
    \/ \E k \in Runs : HbTickFire(k)
    \/ \E k \in Runs : HbSelect(k, "tick")
    \/ \E k \in Runs : HbWrite(k)

SpecBeat == Init /\ [][NextBeat]_vars

\* agents and dashboards, with the client-connected broadcast taken in three
\* steps so that other tasks run while the handler holds dashboardMu; the
\* sections of lines 218-220 and 244-246 wait for m.dashboardMu.Lock()
NextDash ==
    \/ \E s \in CmdSocks, id \in AgentIds, auth \in {"", DashboardSecret} :
          (auth = DashboardSecret => CanLockDash) /\ Connect(s, id, auth)
    \/ \E s \in CmdSocks : Register(s)
    \/ \E s \in CmdSocks : RejectSend(s)
    \/ \E s \in CmdSocks : SaveSnapshot(s)
    \/ \E s \in CmdSocks : SaveWrite(s)
    \/ \E s \in CmdSocks : NotifyLock(s)
    \/ \E s \in CmdSocks : NotifyWrites(s)
    \/ \E s \in CmdSocks : NotifyUnlock(s)
    \/ \E s \in CmdSocks : Welcome(s)
    \/ \E s \in CmdSocks : DashWelcome(s)
    \/ \E s \in CmdSocks : CanLockDash /\ DashClose(s)

SpecDash == Init /\ [][NextDash]_vars

\* agents whose ids are shorter than, as long as and longer than eight characters
NextShort ==
    \/ \E s \in CmdSocks, id \in HostIds : Connect(s, id, "")
    \/ \E s \in CmdSocks : Handler(s)

SpecShort == Init /\ [][NextShort]_vars

\* the agent's listener on an established connection receiving command frames
NextExec ==
    \/ \E a \in ExecActions, t \in ExecTargets : ExecRecv(a, t)
    \/ ExecFilter
    \/ ExecRunning
    \/ \E F \in SUBSET LocalActions : ExecAct(F)
    \/ ExecReport

SpecExec == Init /\ [][NextExec]_vars

\* ---------------------------------------------------------------- properties
HasFrame(s, type) == \E i \in 1..Len(out[s]) : out[s][i].type = type

DuplicateError(ts) == Msg("error", "", "duplicate_connection", "", "", 0, ts)

\* positions of a handler between its registration and its teardown
InSession == {"regSave", "regWrite", "regNotify", "welcome", "read", "hb", "hbSave",
              "hbWrite"}

\* the socket registered for an id is an open socket of a handler of that id that
\* is in its session, and the record of the id is connected
C1_Registered ==
    \A id \in DOMAIN clients :
        /\ clients[id] \in Socks
        /\ cid[clients[id]] = id
        /\ ~closed[clients[id]]
        /\ pc[clients[id]] \in InSession
        /\ id \in DOMAIN clientsInfo
        /\ clientsInfo[id].status = "connected"

\* the duplicate check of socket s: rejected exactly when the id has a live
\* socket, which stays registered with its record untouched; inserted otherwise
C1_Check ==
    \A s \in Socks :
        (pc[s] = "register" /\ pc'[s] # "register") =>
            IF cid[s] \in DOMAIN clients
            THEN /\ pc'[s] = "rejected"
                 /\ clients' = clients
                 /\ clients'[cid[s]] # s
                 /\ clientsInfo' = clientsInfo
            ELSE /\ pc'[s] = "regSave"
                 /\ cid[s] \in DOMAIN clients'
                 /\ clients'[cid[s]] = s
                 /\ \A id \in DOMAIN clients : clients'[id] = clients[id]

\* C1: each agent id maps to at most one live socket; a registration attempt that
\* finds the id registered is rejected and the first socket stays registered and
\* connected, an attempt that does not is inserted.
C1_OneLiveSocket == [](C1_Registered) /\ [][C1_Check]_vars

\* C1 witness: a second socket of the id was rejected while the first is registered
C1_Witness ==
    \E s1, s2 \in Socks :
        /\ s1 # s2
        /\ cid[s1] = cid[s2]
        /\ cid[s1] \in DOMAIN clients
        /\ clients[cid[s1]] = s1
        /\ clientsInfo[cid[s1]].status = "connected"
        /\ pc[s2] = "done"
        /\ HasFrame(s2, "error")

\* no socket gets both frames, and none gets one of them twice
C2_Frames ==
    \A s \in Socks :
        /\ ~(HasFrame(s, "welcome") /\ HasFrame(s, "error"))
        /\ Cardinality({i \in 1..Len(out[s]) : out[s][i].type \in {"welcome", "error"}}) <= 1
        /\ pc[s] \in {"rejected"} => ~HasFrame(s, "welcome")
        /\ HasFrame(s, "error") => closed[s] /\ pc[s] = "done"

\* a rejected socket has lost against another socket of the id, which is the one
\* that gets the welcome frame; the rejected one gets the error frame while it is
\* still open and is closed in the same step; frames written stay as they are
C2_Steps ==
    \A s \in Socks :
        /\ (pc[s] = "register" /\ pc'[s] = "rejected") =>
              \E w \in Socks :
                  /\ w # s
                  /\ cid[w] = cid[s]
                  /\ clients[cid[s]] = w
                  /\ ~HasFrame(w, "error")
                  /\ HasFrame(w, "welcome") \/ pc[w] \in {"regSave", "regWrite",
                                                         "regNotify", "welcome"}
        /\ (pc[s] = "rejected" /\ pc'[s] # "rejected") =>
              /\ ~closed[s]
              /\ out'[s] = Append(out[s], DuplicateError(now))
              /\ closed'[s]
              /\ pc'[s] = "done"
        /\ (pc[s] = "welcome" /\ pc'[s] # "welcome") =>
              /\ out'[s] = Append(out[s], Msg("welcome", cid[s], "", "", "", 0, now))
              /\ pc'[s] = "read"
        /\ pc[s] = "done" => out'[s] = out[s]

\* C2: of two sockets that register the same id, the one whose check finds the
\* other registered gets the duplicate_connection error frame before it is closed
\* and never a welcome frame; the other gets the welcome frame.
C2_WelcomeOrError == [](C2_Frames) /\ [][C2_Steps]_vars

\* C2 witness: the loser has its error frame and is closed before the winner has
\* been sent its welcome frame
C2_Witness ==
    \E s1, s2 \in Socks :
        /\ s1 # s2
        /\ cid[s1] = cid[s2]
        /\ pc[s1] \in {"regSave", "regWrite", "regNotify", "welcome"}
        /\ out[s2] = <<DuplicateError(now)>>
        /\ closed[s2]

\* C3: the steps of a rejected registration (the duplicate check and the error
\* frame) leave the live-socket map, the records, the snapshot file, the dashboard
\* set and the events broadcast as they are, and write to no other socket.
C3_RejectionFrame ==
    [][\A s \in Socks :
          (\/ pc[s] = "register" /\ pc'[s] = "rejected"
           \/ pc[s] = "rejected" /\ pc'[s] # "rejected") =>
             /\ UNCHANGED <<clients, clientsInfo, storageFile, dashboardConns, emitted>>
             /\ \A q \in Socks \ {s} : out'[q] = out[q] /\ closed'[q] = closed[q]]_vars

\* C3 witness: a rejection is complete at a time later than the winner's last
\* registration stamp
C3_Witness ==
    \E s1, s2 \in Socks :
        /\ s1 # s2
        /\ cid[s1] \in DOMAIN clients
        /\ clients[cid[s1]] = s1
        /\ cid[s2] = cid[s1]
        /\ pc[s2] = "done"
        /\ HasFrame(s2, "error")
        /\ now > clientsInfo[cid[s1]].lastSeen

\* C10: a step that sets a record's status to disconnected (the teardown of a
\* handler, the demotion by the monitor) leaves the id without live socket.
C10_DisconnectedRemoves ==
    [][/\ \A id \in DOMAIN clientsInfo :
             (clientsInfo[id].status # "disconnected"
              /\ clientsInfo'[id].status = "disconnected") => id \notin DOMAIN clients'
       /\ \A s \in Socks :
             (pc[s] = "read" /\ pc'[s] = "tdSave") =>
                 /\ cid[s] \notin DOMAIN clients'
                 /\ clientsInfo'[cid[s]].status = "disconnected"
       /\ \A id \in mdisc' \ mdisc : id \notin DOMAIN clients']_vars

\* C10 witness: the monitor has demoted an id whose socket it closed, and the id
\* has no live socket
C10_Witness ==
    \E s \in Socks :
        /\ cid[s] \in mdisc
        /\ closed[s]
        /\ pc[s] = "read"
        /\ clientsInfo[cid[s]].status = "disconnected"
        /\ cid[s] \notin DOMAIN clients

\* the number of command frames among the frames written to a socket
CommandFrames(s, o) == Cardinality({i \in 1..Len(o[s]) : o[s][i].type = "command"})

\* the sockets a command with target t is for
Addressed(t) ==
    IF t \in {"all", ""}
    THEN {clients[id] : id \in DOMAIN clients}
    ELSE IF t \in DOMAIN clients THEN {clients[t]} ELSE {}

\* while a command is dispatched, the sockets written to and those still to be
\* written to are the sockets registered for the target
C4_Addressed ==
    \A r \in Reqs :
        creq[r].pc = "send" =>
            /\ creq[r].todo \subseteq DOMAIN clients
            /\ creq[r].sentTo \cup {clients[id] : id \in creq[r].todo}
                  = Addressed(creq[r].target)
            /\ \A id \in creq[r].todo : clients[id] \notin creq[r].sentTo

\* a command frame is written by a dispatch to one addressed socket at a time and
\* carries the command; the request is answered without error
C4_Writes ==
    /\ \A s \in Socks :
          CommandFrames(s, out') # CommandFrames(s, out) =>
              \E r \in Reqs :
                  /\ creq[r].pc = "send"
                  /\ s \in Addressed(creq[r].target)
                  /\ creq'[r].sentTo = creq[r].sentTo \cup {s}
                  /\ s \notin creq[r].sentTo
                  /\ out'[s] = Append(out[s], Msg("command", "", "", creq[r].action,
                                                  creq[r].target, 0, now))
                  /\ \A q \in Socks \ {s} : out'[q] = out[q]
    /\ \A r \in Reqs :
          /\ (creq[r].pc = "send" /\ creq'[r].sentTo # creq[r].sentTo
              /\ creq'[r].pc = "send") =>
                 \E s \in Socks : CommandFrames(s, out') = CommandFrames(s, out) + 1
          /\ (creq[r].pc = "send" /\ creq'[r].pc = "idle") =>
                 /\ creq[r].sentTo = Addressed(creq[r].target)
                 /\ creq'[r].reply = "sent"

\* C4: broadcastCommand writes the command frame to every socket of the live-socket
\* map for target "all" or "", only to the target's socket for a live target id,
\* and to no agent socket otherwise, without reporting an error.
C4_BroadcastTargets == [](C4_Addressed) /\ [][C4_Writes]_vars

\* C4 witness: with two live agents, a command for one id has been written to that
\* id's socket alone
C4_Witness ==
    \E r \in Reqs :
        /\ creq[r].pc = "send"
        /\ creq[r].todo = {}
        /\ Cardinality(DOMAIN clients) = 2
        /\ creq[r].target \in DOMAIN clients
        /\ creq[r].sentTo = {clients[creq[r].target]}
        /\ \A id \in DOMAIN clients :
              CommandFrames(clients[id], out) = IF id = creq[r].target THEN 1 ELSE 0

\* a target that is no "all" and has no live socket
Offline(t) == t \notin {"all", ""} /\ t \notin DOMAIN clients

\* C5: from the call of broadcastCommand to the reply, the live-socket map and the
\* records stay as they are; for an offline target no command frame with that
\* target is written to any socket, and the reply is "sent" all the same.
C5_DispatchFrame ==
    [][\A r \in Reqs :
          /\ (creq[r].pc = "send" \/ creq'[r].pc = "send") =>
                UNCHANGED <<clients, clientsInfo>>
          /\ (creq[r].pc = "send" /\ Offline(creq[r].target)) =>
                /\ creq[r].sentTo = {} /\ creq'[r].sentTo = {}
                /\ \A s \in Socks :
                      CommandFrames(s, out') # CommandFrames(s, out) =>
                          out'[s][Len(out'[s])].target # creq[r].target
          /\ (creq[r].pc = "send" /\ creq'[r].pc = "idle") => creq'[r].reply = "sent"]_vars

\* C5 witness: a command for a known id without live socket has been answered while
\* another agent is live, and no socket has a command frame
C5_Witness ==
    \E r \in Reqs, id \in DOMAIN clientsInfo :
        /\ creq[r].pc = "idle"
        /\ creq[r].reply = "sent"
        /\ clientsInfo[id].status = "disconnected"
        /\ id \notin DOMAIN clients
        /\ DOMAIN clients # {}
        /\ \A s \in Socks : CommandFrames(s, out) = 0
        /\ \E m \in BagToSet(emitted) : m.type = "command-sent" /\ m.target = id

\* C6: the end of every broadcastCommand hands exactly one command-sent event to
\* broadcastToDashboard, with the command's action and target and the size of the
\* live-socket map; it is written to every socket of the dashboard set (a socket
\* whose write fails leaves the set) and to no other socket.
C6_CommandSent ==
    [][\A r \in Reqs :
          (creq[r].pc = "send" /\ creq'[r].pc = "idle") =>
             LET ev == Msg("command-sent", "", "", creq[r].action, creq[r].target,
                           Cardinality(DOMAIN clients), now)
             IN /\ emitted' = emitted (+) SetToBag({ev})
                /\ \A d \in dashboardConns :
                      \/ out'[d] = Append(out[d], ev) /\ d \in dashboardConns'
                      \/ out'[d] = out[d] /\ d \notin dashboardConns'
                /\ \A s \in Socks \ dashboardConns : out'[s] = out[s]
                /\ dashboardConns' \subseteq dashboardConns]_vars

\* C6 witness: a command that no agent received has been answered and a dashboard
\* has its command-sent event, with client count 0
C6_Witness ==
    \E r \in Reqs, d \in dashboardConns :
        /\ creq[r].reply = "sent"
        /\ \A s \in Socks : CommandFrames(s, out) = 0
        /\ Len(out[d]) > 0
        /\ out[d][Len(out[d])].type = "command-sent"
        /\ out[d][Len(out[d])].count = 0

\* the monitor has handled every tick that is due
TickDone == mpc = "idle" /\ now < nextTick

\* a step of the monitor's locked scan
MonitorScan == nextTick' # nextTick

\* C7: once HeartbeatInterval + HeartbeatTimeout have passed since the recorded
\* lastHeartbeat of an agent, the agent's status is disconnected and its id is not
\* in the live-socket map; the scan that removes the id closes its socket.
C7_Overdue ==
    \A id \in DOMAIN clientsInfo :
        (now < nextTick
         /\ now - clientsInfo[id].lastHeartbeat >= HeartbeatInterval + HeartbeatTimeout) =>
            /\ clientsInfo[id].status = "disconnected"
            /\ id \notin DOMAIN clients

C7_ScanCloses ==
    MonitorScan =>
        \A id \in DOMAIN clients :
            (clientsInfo[id].status = "connected"
             /\ clientsInfo'[id].status = "disconnected") =>
                /\ closed'[clients[id]]
                /\ id \notin DOMAIN clients'

C7_DemotedInTime == [](C7_Overdue) /\ [][C7_ScanCloses]_vars

\* C7 witness: a silent agent has been demoted by the monitor, its socket closed
\* while its handler still waits in ReadJSON, within interval + timeout
C7_Witness ==
    \E s \in TimedSocks :
        /\ pc[s] = "read"
        /\ closed[s]
        /\ cid[s] \in DOMAIN clientsInfo
        /\ cid[s] \notin DOMAIN clients
        /\ clientsInfo[cid[s]].status = "disconnected"
        /\ now - clientsInfo[cid[s]].lastHeartbeat > HeartbeatTimeout
        /\ now - clientsInfo[cid[s]].lastHeartbeat <= HeartbeatInterval + HeartbeatTimeout

RECURSIVE Copies(_, _)
\* the number of elements of the bag B that are in the set S
Copies(B, S) ==
    IF S = {} THEN 0
    ELSE LET m == CHOOSE x \in S : TRUE
         IN CopiesIn(m, B) + Copies(B, S \ {m})

\* the number of heartbeat_timeout events emitted for id with a timestamp after t
TimeoutEvents(id, t) ==
    Copies(emitted, {m \in BagToSet(emitted) :
                        /\ m.type = "client-disconnected"
                        /\ m.clientId = id
                        /\ m.info = "heartbeat_timeout"
                        /\ m.ts > t})

\* the sockets whose handler waits in ReadJSON for an agent with a record
Silent == {s \in TimedSocks : pc[s] = "read" /\ cid[s] \in DOMAIN clientsInfo}

\* C8 as stated: 95s after the last heartbeat the agent is disconnected and exactly
\* one heartbeat_timeout event has been emitted for it
C8_At95 ==
    \A s \in Silent :
        LET T == clientsInfo[cid[s]].lastHeartbeat IN
        /\ now = T => clientsInfo[cid[s]].status = "connected"
        /\ (TickDone /\ now - T = 95) =>
              /\ clientsInfo[cid[s]].status = "disconnected"
              /\ TimeoutEvents(cid[s], T) = 1

\* C8 (amended): an agent silent since T is connected up to T + HeartbeatTimeout
\* with no heartbeat_timeout event, and from T + HeartbeatTimeout + MonitorPeriod
\* on it is disconnected with exactly one heartbeat_timeout event; there is never
\* more than one such event.
C8_AtTick ==
    \A s \in Silent :
        LET T == clientsInfo[cid[s]].lastHeartbeat IN
        /\ now - T <= HeartbeatTimeout =>
              /\ clientsInfo[cid[s]].status = "connected"
              /\ TimeoutEvents(cid[s], T) = 0
        /\ (TickDone /\ now - T >= HeartbeatTimeout + MonitorPeriod) =>
              /\ clientsInfo[cid[s]].status = "disconnected"
              /\ TimeoutEvents(cid[s], T) = 1
        /\ TimeoutEvents(cid[s], T) <= 1

\* C8 witness: a silent agent is disconnected with its one heartbeat_timeout event
\* a full period of the ticker after the demotion
C8_Witness ==
    \E s \in Silent :
        /\ TickDone
        /\ now - clientsInfo[cid[s]].lastHeartbeat >= HeartbeatTimeout + 2 * MonitorPeriod
        /\ clientsInfo[cid[s]].status = "disconnected"
        /\ TimeoutEvents(cid[s], clientsInfo[cid[s]].lastHeartbeat) = 1

\* C9: a scan of the monitor demotes an agent, or closes its socket, only when more
\* than HeartbeatInterval has passed since its recorded lastHeartbeat.
C9_NoFalseDemotion ==
    [][MonitorScan =>
          /\ \A id \in DOMAIN clientsInfo :
                (clientsInfo[id].status = "connected"
                 /\ clientsInfo'[id].status = "disconnected") =>
                    now - clientsInfo[id].lastHeartbeat > HeartbeatInterval
          /\ \A id \in DOMAIN clients :
                (closed'[clients[id]] /\ ~closed[clients[id]]) =>
                    now - clientsInfo[id].lastHeartbeat > HeartbeatInterval]_vars

\* C9 witness: an agent registered more than interval + timeout ago that has sent
\* a heartbeat within the last interval is connected with its socket open
C9_Witness ==
    \E s \in TimedSocks :
        /\ pc[s] = "read"
        /\ ~closed[s]
        /\ cid[s] \in DOMAIN clients
        /\ clients[cid[s]] = s
        /\ clientsInfo[cid[s]].status = "connected"
        /\ TickDone
        /\ now - clientsInfo[cid[s]].firstSeen > HeartbeatInterval + HeartbeatTimeout
        /\ now - clientsInfo[cid[s]].lastHeartbeat <= HeartbeatInterval

\* the upgrades the coordinator turns away: a secret that is not the dashboard
\* secret, or neither secret nor identity header
TurnedAway(id, auth) == (auth # "" /\ auth # DashboardSecret) \/ (auth = "" /\ id = "")

\* C11: the upgrade of a socket with a wrong dashboard secret (with or without an
\* identity header), or with neither secret nor identity header, closes the socket
\* and ends its handler; the live-socket map, the records, the dashboard set, the
\* file and the frames written are unchanged and no event is emitted; an ended
\* handler takes no further step.
C11_TurnedAway ==
    [][/\ \A s \in Socks, id \in AgentIds \cup {""}, auth \in AuthValues :
             (TurnedAway(id, auth) /\ Connect(s, id, auth)) =>
                 /\ closed'[s]
                 /\ pc'[s] = "done"
                 /\ cid'[s] = ""
                 /\ UNCHANGED <<clients, clientsInfo, dashboardConns, storageFile,
                                out, emitted>>
       /\ \A s \in Socks : pc[s] = "done" => pc'[s] = "done" /\ cid'[s] = cid[s]]_vars

\* C11 witness: beside a registered agent, a socket was turned away at its upgrade:
\* closed, without identity, without a frame, in no set
C11_Witness ==
    \E s \in Socks :
        /\ pc[s] = "done"
        /\ closed[s]
        /\ cid[s] = ""
        /\ out[s] = <<>>
        /\ s \notin dashboardConns
        /\ \E id \in DOMAIN clients : clients[id] # s

\* C12: the step that registers socket s for its id sets the record's status to
\* connected and its lastSeen and lastHeartbeat to the time of the step; firstSeen
\* is kept when the id had a record and is the time of the step otherwise; no other
\* record changes.
C12_RegistrationStamps ==
    [][\A s \in Socks :
          (pc[s] = "register" /\ pc'[s] = "regSave") =>
              LET id == cid[s] IN
              /\ id \in DOMAIN clientsInfo'
              /\ clients' = Put(clients, id, s)
              /\ clientsInfo'[id].id = id
              /\ clientsInfo'[id].status = "connected"
              /\ clientsInfo'[id].lastSeen = now
              /\ clientsInfo'[id].lastHeartbeat = now
              /\ clientsInfo'[id].firstSeen =
                    IF id \in DOMAIN clientsInfo THEN clientsInfo[id].firstSeen ELSE now
              /\ DOMAIN clientsInfo' = DOMAIN clientsInfo \cup {id}
              /\ \A o \in DOMAIN clientsInfo \ {id} : clientsInfo'[o] = clientsInfo[o]]_vars

\* C12 witness: a socket has just registered an id whose record is older than the
\* registration
C12_Witness ==
    \E s \in Socks :
        /\ pc[s] = "regSave"
        /\ cid[s] \in DOMAIN clients
        /\ clients[cid[s]] = s
        /\ clientsInfo[cid[s]].status = "connected"
        /\ clientsInfo[cid[s]].lastHeartbeat = now
        /\ clientsInfo[cid[s]].lastSeen = now
        /\ clientsInfo[cid[s]].firstSeen < now

\* C13: the step that handles a heartbeat frame of socket s sets lastHeartbeat and
\* lastSeen of the record of its id to the time of the step and its status to
\* connected, keeps the record's id and firstSeen, changes no other record and
\* leaves the live-socket map as it is.
C13_HeartbeatStamps ==
    [][\A s \in Socks :
          (pc[s] = "hb" /\ pc'[s] = "hbSave") =>
              LET id == cid[s] IN
              /\ clients' = clients
              /\ DOMAIN clientsInfo' = DOMAIN clientsInfo
              /\ \A o \in DOMAIN clientsInfo \ {id} : clientsInfo'[o] = clientsInfo[o]
              /\ id \in DOMAIN clientsInfo =>
                    clientsInfo'[id] = [clientsInfo[id] EXCEPT !.lastHeartbeat = now,
                                                               !.lastSeen = now,
                                                               !.status = "connected"]]_vars

\* C13 witness: a heartbeat read before a tick of the monitor and handled after it
\* has set the demoted record back to connected, beside the record of another id
C13_Witness ==
    \E s \in Socks :
        /\ pc[s] = "hbSave"
        /\ closed[s]
        /\ cid[s] \notin DOMAIN clients
        /\ cid[s] \in DOMAIN clientsInfo
        /\ clientsInfo[cid[s]].status = "connected"
        /\ clientsInfo[cid[s]].lastHeartbeat = now
        /\ clientsInfo[cid[s]].firstSeen < now
        /\ \E o \in DOMAIN clientsInfo : o # cid[s] /\ clientsInfo[o].lastSeen < now

\* the snapshot file holds a persist of the registry as it is
Persisted == storageFile.exists /\ storageFile.data \in Snapshots

\* C14: a coordinator started on a snapshot file that holds a persist of the
\* registry has a record for exactly the same ids, each with the firstSeen it had;
\* whatever the file holds, every record of the new coordinator is disconnected,
\* its ids are the ids of the file, and its live-socket map is empty.
C14_Reload ==
    [][(mainpc # "serve" /\ mainpc' = "serve") =>
          /\ clients' = EmptyMap
          /\ \A id \in DOMAIN clientsInfo' : clientsInfo'[id].status = "disconnected"
          /\ DOMAIN clientsInfo' =
                IF storageFile.exists
                THEN {storageFile.data[i].id : i \in 1..Len(storageFile.data)}
                ELSE {}
          /\ Persisted =>
                /\ DOMAIN clientsInfo' = DOMAIN clientsInfo
                /\ \A id \in DOMAIN clientsInfo :
                      /\ clientsInfo'[id].id = id
                      /\ clientsInfo'[id].firstSeen = clientsInfo[id].firstSeen]_vars

\* C14 witness: a coordinator started again has reloaded the records of two ids,
\* one of which was connected when the file was written
C14_Witness ==
    /\ restarts = 1
    /\ mainpc = "serve"
    /\ \A s \in Socks : pc[s] = "idle"
    /\ clients = EmptyMap
    /\ DOMAIN clientsInfo = AgentIds
    /\ \A id \in AgentIds : clientsInfo[id].status = "disconnected"
    /\ \E i \in 1..Len(storageFile.data) : storageFile.data[i].status = "connected"

\* C15: when main has returned after cleanup, the snapshot file does not exist (so
\* that a coordinator started then loads no record).
C15_FileGone == mainpc = "exited" => ~storageFile.exists

\* positions of a handler between a change of the registry and the end of its
\* saveClientData
Persisting == {"regSave", "regWrite", "hbSave", "hbWrite", "tdSave", "tdWrite"}

\* positions of a handler that has changed the registry and persisted it
HasPersisted == {"regNotify", "welcome", "read", "hb", "tdNotify"}

\* C16: when no task is between a change of the registry and the end of its
\* persist, and some handler has persisted, the snapshot file holds exactly the
\* records of the registry.
C16_FileIsRegistry ==
    (/\ \A s \in Socks : pc[s] \notin Persisting
     /\ mpc = "idle"
     /\ \E s \in Socks : pc[s] \in HasPersisted) =>
        /\ storageFile.exists
        /\ {storageFile.data[i] : i \in 1..Len(storageFile.data)}
              = {clientsInfo[id] : id \in DOMAIN clientsInfo}

\* a listener of the agent has received the duplicate_connection error frame
ReceivedDuplicate == \E k \in Runs : lsn[k].pc = "handle" /\ lsn[k].msg = "duplicate_connection"

\* C17: once the agent has received a duplicate_connection error frame it makes no
\* further connection attempt, no reconnect is signalled or started, and the
\* process ends in a terminal state
C17_NoAttemptAfterDuplicate ==
    [][/\ ReceivedDuplicate =>
            /\ dials' = dials
            /\ \A j \in Runs : run[j].pc = "off" => run'[j].pc = "off"
            /\ \A j \in Runs : run'[j].pc = "signal" => run[j].pc = "signal"
            /\ \A j \in Runs : lsn'[j].pc = "signal" => lsn[j].pc = "signal"
       /\ amain = "exit1" => UNCHANGED <<amain, run, lsn, conn, retrying, dials>>]_vars

\* connectWithRetry k waits before its next attempt, after run[k].fails failures
Sleeping(k) == run[k].pc = "sleep"

\* C18 as stated: after N consecutive failures the wait before attempt N+1 is
\* min(2^N, 30) seconds, and a loop started after a success begins again at 1s
C18_WaitTwoToN ==
    \A k \in Runs :
        /\ Sleeping(k) => run[k].wait = Min(2 ^ run[k].fails, MaxBackoff)
        /\ run[k].pc # "off" /\ run[k].fails = 0 => run[k].backoff = InitialBackoff

\* C18: after N >= 1 consecutive failures the wait before attempt N+1 is
\* min(2^(N-1), 30) seconds; a reconnect loop other than the first runs only
\* after a connection succeeded, and every loop begins again at 1s
C18_WaitTwoToNMinusOne ==
    \A k \in Runs :
        /\ Sleeping(k) =>
              /\ run[k].fails >= 1
              /\ run[k].wait = Min(2 ^ (run[k].fails - 1), MaxBackoff)
        /\ run[k].pc # "off" /\ run[k].fails = 0 => run[k].backoff = InitialBackoff
        /\ k > 1 /\ run[k].pc # "off" => conn # 0

\* the first loop reached the 30s cap at its sixth failure and then connected; the
\* loop started after that connection was lost waits 1s after its first failure
C18_Witness ==
    /\ run[1].pc = "end"
    /\ run[1].fails = 6
    /\ run[1].wait = MaxBackoff
    /\ link[1].mode = "accepted"
    /\ Sleeping(2)
    /\ run[2].fails = 1
    /\ run[2].wait = InitialBackoff

\* connectWithRetry k fails an attempt in this step and begins to wait
BeginsWait(k) == run[k].pc = "dial" /\ run'[k].pc = "sleep"

\* C19: within one reconnect loop the first wait is 1s, each later wait is twice
\* the previous one capped at 30s, no wait exceeds 30s or is shorter than the one
\* before, and a wait of 1s is the first wait of its loop, which, unless it is the
\* agent's first loop, was started after a connection had succeeded
C19_BackoffSequence ==
    [][\A k \in Runs :
          BeginsWait(k) =>
              /\ run'[k].wait = IF run[k].fails = 0 THEN InitialBackoff
                                ELSE Min(2 * run[k].wait, MaxBackoff)
              /\ run'[k].wait <= MaxBackoff
              /\ run'[k].wait >= run[k].wait
              /\ run'[k].wait = InitialBackoff =>
                    /\ run[k].fails = 0
                    /\ k = 1 \/ conn # 0]_vars

\* a loop that has failed seven times in a row waits 30s for the second time
C19_Witness ==
    \E k \in Runs :
        /\ Sleeping(k)
        /\ run[k].fails = 7
        /\ run[k].wait = MaxBackoff

\* C20: once the agent's main loop has received the interrupt the process
\* terminates, whether or not the write of the "disconnecting" status returns, and
\* main waits for that write no longer than the 2s timeout
C20_InterruptTerminates ==
    /\ (amain = "interrupted") ~> (amain \in {"exited", "exit1"})
    /\ [](waited <= StatusTimeout)
    /\ [][amain = "waitStatus" /\ amain' = "closing"
            => sender = "done" \/ waited = StatusTimeout]_vars
    /\ [][amain = "closing" /\ amain' # amain
            => amain' = "exit1" \/ (amain' = "exited" /\ (conn # 0 => link'[conn].localClosed))]_vars

\* main has returned after the full timeout while the write was still in progress
C20_Witness ==
    /\ amain = "exited"
    /\ sender = "write"
    /\ waited = StatusTimeout
    /\ conn # 0
    /\ link[conn].localClosed

\* a connectWithRetry is running
LoopRunning == \E j \in Runs : run[j].pc \notin {"off", "end"}

\* main can still start a connectWithRetry within the bound
SomeRunFree == \E j \in Runs : run[j].pc = "off"

Mine == xframe.target \in {"all", "", NoTarget, OwnId}

\* the frame in xframe has been handled completely
Handled == xpc = "read" /\ xcount > 0

\* C22: the agent executes a command frame exactly when its target is "all",
\* empty, absent or the agent's own id; for any other target it invokes nothing
\* and sends no action_status frame
C22_TargetFilter ==
    /\ xpc \in {"start", "act", "report"} => Mine
    /\ Handled /\ Mine => xsent # <<>> /\ xres # NoResult
    /\ Handled /\ ~Mine => xsent = <<>> /\ xran = <<>> /\ xres = NoResult

\* after a command that was executed, a frame for another agent was dropped
C22_Witness ==
    /\ Handled
    /\ xframe.target = "linux-lab02"
    /\ xframe.action = "setup"
    /\ xdone = <<"success">>
    /\ xsent = <<>>

\* the running frame of the command in xframe, alone in xsent
OnlyRunning ==
    /\ Len(xsent) = 1
    /\ xsent[1].status = "running"
    /\ xsent[1].action = xframe.action

\* C23: for every command the agent accepts it gives WriteJSON an action_status
\* running frame before the action starts, and after the action has completed
\* exactly one more frame, with status success or failed, for the same action
C23_RunningThenFinal ==
    /\ [](/\ xpc = "act" => OnlyRunning /\ xran = <<>> /\ xres = NoResult
          /\ xpc = "report" => OnlyRunning /\ xres # NoResult
          /\ Handled /\ Mine =>
                /\ Len(xsent) = 2
                /\ xsent[1].status = "running"
                /\ xsent[2].status \in {"success", "failed"}
                /\ xsent[1].action = xframe.action
                /\ xsent[2].action = xframe.action)
    /\ [][xran' # xran /\ xran' # <<>> => xpc = "act" /\ xpc' = "report"]_vars

\* a clear command whose two frames were written: running, then failed
C23_Witness ==
    /\ Handled
    /\ xframe.action = "clear"
    /\ Len(xsent) = 2
    /\ xsent[1].status = "running" /\ xsent[1].written
    /\ xsent[2].status = "failed" /\ xsent[2].written
    /\ xran = <<[op |-> "clear", ok |-> FALSE]>>

\* the action of the frame in xframe is none of the five the agent knows
UnknownAction ==
    xframe.action \notin {"setup", "open-vscode", "open-chrome", "setupAll", "clear"}

\* C24: for a command whose action is not a known one the agent invokes no
\* LocalAction and reports action_status failed with the error "unknown command"
C24_UnknownCommand ==
    UnknownAction =>
        /\ xran = <<>>
        /\ Handled /\ Mine =>
              /\ xsent[Len(xsent)].status = "failed"
              /\ xsent[Len(xsent)].error = "unknown command"
              /\ xsent[Len(xsent)].action = xframe.action

\* a reboot command addressed to every agent has been answered
C24_Witness ==
    /\ Handled
    /\ xframe = [action |-> "reboot", target |-> "all"]
    /\ Len(xsent) = 2
    /\ xsent[2].error = "unknown command"
    /\ xsent[2].written

\* a LocalAction invoked for the command in xframe has failed
SomeStepFailed == \E i \in 1..Len(xran) : ~xran[i].ok

\* the last action_status frame of the command in xframe reports a failure
ReportsFailure ==
    /\ xsent[Len(xsent)].status = "failed"
    /\ xsent[Len(xsent)].error # ""

\* C25 as stated: whenever a LocalAction invoked for an accepted command fails,
\* the steps of setupAll included, the agent reports action_status failed with
\* the error
C25_EveryFailureReported ==
    Handled /\ SomeStepFailed => ReportsFailure

\* C25: a failing LocalAction is reported as action_status failed with its error
\* when it is the operation of setup, open-vscode, open-chrome or clear or the
\* folder step of setupAll; when only the editor or browser step of setupAll
\* fails, setupAll is reported as success; either way the listener returns to
\* reading and executes the commands that follow
C25_FailureReported ==
    /\ [](Handled /\ SomeStepFailed =>
            IF xframe.action = "setupAll" /\ xran[1].ok
            THEN xsent[Len(xsent)].status = "success"
            ELSE ReportsFailure)
    /\ [][xpc = "report" /\ xpc' # xpc =>
            /\ xpc' = "read"
            /\ Len(xdone') = Len(xdone) + 1]_vars
    /\ [](Handled /\ xcount < MaxFrames => ENABLED ExecRecv("setup", "all"))

\* after a command that failed, a setupAll whose editor step failed was executed
\* and reported as success
C25_Witness ==
    /\ Handled
    /\ xdone = <<"failed", "success">>
    /\ xframe.action = "setupAll"
    /\ xran = <<[op |-> "folder", ok |-> TRUE], [op |-> "editor", ok |-> FALSE],
                [op |-> "browser", ok |-> TRUE]>>

\* C26: when the coordinator receives an action_status frame from a registered
\* agent it records the action, its status and its error in that agent's record,
\* sets lastSeen without changing the connection status, and hands a
\* client_action_update event for that agent to the dashboard broadcast
C26_ReportRecorded ==
    [][\A s \in CmdSocks :
          RecvReport(s) =>
              LET id == cid[s] IN
              /\ id \in DOMAIN clientsInfo'
              /\ {"lastAction", "lastActionStatus", "lastActionError"}
                     \subseteq DOMAIN clientsInfo'[id]
              /\ clientsInfo'[id].lastSeen = now
              /\ clientsInfo'[id].status = clientsInfo[id].status
              /\ \E m \in BagToSet(emitted') :
                    /\ m.type = "client_action_update"
                    /\ m.clientId = id
                    /\ CopiesIn(m, emitted') = CopiesIn(m, emitted) + 1]_vars

\* the place of an agent id in the ascending order of the ids
IdRank(id) ==
    CASE id = "linux-lab01" -> 1
      [] id = "linux-lab02" -> 2
      [] OTHER -> 3

\* the array holds no id twice and is ordered by ascending id
SortedById(arr) ==
    \A i, j \in 1..Len(arr) : i < j => IdRank(arr[i].id) < IdRank(arr[j].id)

\* C27: the record array of a registry snapshot, as copied by saveClientData and
\* written to the snapshot file, holds every record of the registry exactly once
\* and in ascending order of the agent ids
C27_SnapshotSorted ==
    /\ [](/\ \A s \in Socks : SortedById(snap[s])
          /\ SortedById(storageFile.data))
    /\ [][\A s \in Socks :
            snap'[s] # snap[s] /\ snap'[s] # <<>> =>
                /\ {snap'[s][i] : i \in 1..Len(snap'[s])} =
                       {clientsInfo[id] : id \in DOMAIN clientsInfo}
                /\ Len(snap'[s]) = Cardinality(DOMAIN clientsInfo)]_vars

\* C28: while a coordinator process runs no record is removed from the registry:
\* every step keeps every agent id of the registry, under its own key
C28_RecordsKept ==
    [][\A id \in DOMAIN clientsInfo :
          /\ id \in DOMAIN clientsInfo'
          /\ clientsInfo'[id].id = id
          /\ clientsInfo'[id].firstSeen = clientsInfo[id].firstSeen]_vars

\* both agents are in the registry as disconnected, one loaded from the file and
\* one after it registered, was sent a command, timed out and its handler ended
C28_Witness ==
    /\ DOMAIN clientsInfo = AgentIds
    /\ \A id \in AgentIds : clientsInfo[id].status = "disconnected"
    /\ DOMAIN clients = {}
    /\ \E s \in TimedSocks :
          pc[s] = "done" /\ HasFrame(s, "welcome") /\ HasFrame(s, "command")
    /\ \E m \in BagToSet(emitted) : m.info = "heartbeat_timeout"
    /\ cmds = 1

\* C29: every read and write of the live-socket map and of the records is made
\* under the registry lock, writes under the exclusive lock, so no task changes
\* or reads them while another task is inside an exclusive section
C29_AccessUnderLock ==
    [][/\ clients' # clients \/ clientsInfo' # clientsInfo =>
            clientsMu.readers = {} /\ (clientsMu.writer = 0 \/ clientsMu'.writer = 0)
       /\ \A s \in CmdSocks :
            NotifyConnected(s) \/ SaveSnapshot(s) => clientsMu.writer = 0]_vars

\* a write to a dashboard socket is stalled
DashboardWriteStalled == \E r \in Reqs : creq[r].pc = "dashWrite"

\* C30: while a write to a dashboard socket is stalled, a heartbeat that has been
\* received can be recorded and an agent can register and unregister: none of
\* them waits for the registry lock on account of the stalled write
C30_StallLeavesRegistryFree ==
    DashboardWriteStalled =>
        /\ \A s \in CmdSocks : pc[s] = "hb" => ENABLED HandleHeartbeat(s)
        /\ \A s \in CmdSocks : pc[s] = "register" => ENABLED Register(s)
        /\ \A s \in CmdSocks : pc[s] = "read" => ENABLED Teardown(s)

\* once shutdown is closed, main receives no reconnect signal and starts no
\* connectWithRetry
NoReconnectAccepted ==
    \A k \in Runs :
        shutdown => ~MainReconnectFromListen(k) /\ ~MainReconnectFromLoop(k)

\* a shutdown check of connectWithRetry made once shutdown is closed ends the loop
\* before it connects
CheckEndsLoop ==
    \A k \in Runs :
        shutdown /\ run[k].pc = "check" /\ run'[k] # run[k] => run'[k].pc = "end"

\* a heartbeat loop that wakes up in its select once shutdown is closed gives no
\* heartbeat frame to conn.WriteJSON
WakeUpSendsNothing ==
    \A k \in Runs : shutdown /\ hb[k].pc = "wait" => hb'[k].pc # "write"

\* C31: once the agent's shutdown signal is raised, no reconnect signal of the read
\* loop is accepted, the reconnect loop starts no connection attempt after its
\* next shutdown check, and the heartbeat loop sends no heartbeat after its next
\* wake-up
C31_TasksObserveShutdown ==
    [][NoReconnectAccepted /\ CheckEndsLoop /\ WakeUpSendsNothing]_vars

C31_ReconnectPart == [][NoReconnectAccepted]_vars
C31_LoopPart == [][CheckEndsLoop]_vars

\* the id of handler s is registered to another, newer socket
Superseded(s) == cid[s] \in DOMAIN clients /\ clients[cid[s]] # s

\* C32: the teardown of an agent socket handler whose id has been re-registered
\* by a newer socket neither removes the newer socket from the live-socket map
\* nor sets the record's status to disconnected
C32_TeardownOwnSession ==
    [][\A s \in Socks :
          Teardown(s) /\ Superseded(s) =>
              /\ clients' = clients
              /\ clientsInfo'[cid[s]].status = clientsInfo[cid[s]].status]_vars

\* C33: whenever no task holds the registry lock, an AgentRecord has status
\* connected if and only if its id is a key of the live-socket map
C33_ConnectedIffLive ==
    CanLock =>
        \A id \in DOMAIN clientsInfo :
            clientsInfo[id].status = "connected" <=> id \in DOMAIN clients

\* the tasks inside conn.WriteJSON on socket s of the coordinator
Writers(s) == {w \in wr : w[2] = s}

\* the heartbeat loops inside conn.WriteJSON on connection c of the agent
BeatWriters(c) == {k \in Runs : hb[k].pc = "write" /\ hb[k].on = c}

\* the listener hands an action_status frame to conn.WriteJSON
ActionStatusWritten == Len(xsent') > Len(xsent)

\* C34: at most one task writes a frame to a given websocket connection at any
\* time: on the coordinator, command dispatches and the handler's welcome write
\* never write to the same agent socket simultaneously; on the agent, the
\* heartbeat loop and the action_status writes never write to the agent's socket
\* simultaneously
C34_OneWriter ==
    /\ [](\A s \in Socks : Cardinality(Writers(s)) <= 1)
    /\ [](\A k \in Runs : Cardinality(BeatWriters(k)) <= 1)
    /\ [][ActionStatusWritten => BeatWriters(conn) = {}]_vars

\* the connectWithRetry goroutines that have been started and have not returned
LoopsRunning == {k \in Runs : run[k].pc \notin {"off", "end"}}

\* connection c is an open session of the agent
LiveSession(c) ==
    /\ link[c].mode \in {"accept", "accepted"}
    /\ ~link[c].peerClosed
    /\ ~link[c].localClosed

\* C35: in an agent process at most one reconnect loop (connectWithRetry) runs at
\* any time, and the agent makes no connection attempt while a session of its own
\* is still open
C35_OneReconnectLoop ==
    /\ [](Cardinality(LoopsRunning) <= 1)
    /\ [][dials' > dials => \A c \in Runs : ~LiveSession(c)]_vars

\* the heartbeat loops that have been started and have not returned
BeatsRunning == {k \in Runs : hb[k].pc \in {"wait", "write"}}

\* C36: in an agent process at most one heartbeat-send loop is active at any
\* time: the loop started for a session has stopped when the loop of the next
\* session is started
C36_OneHeartbeatLoop == Cardinality(BeatsRunning) <= 1

\* C37: every insertion into and removal from the dashboard connection set is
\* made by a task that holds the dashboard lock exclusively, so never while a
\* task holds the shared lock
C37_DashboardSetUnderLock ==
    [][dashboardConns' # dashboardConns => CanLockDash]_vars

\* C38: for every non-empty agent id, also one shorter than 8 characters, a
\* registration attempt goes on to the welcome or to the duplicate_connection
\* rejection and leaves the registry lock released
C38_RegistrationCompletes ==
    [][\A s \in CmdSocks :
          Register(s) =>
              /\ pc'[s] \in {"regSave", "rejected"}
              /\ clientsMu'.writer = 0]_vars

\* C39: on every successful registration the welcome frame is the first frame
\* the coordinator writes to the agent's socket
C39_WelcomeFirst ==
    \A s \in CmdSocks :
        pc[s] \in InSession /\ out[s] # <<>> =>
            out[s][1].type = "welcome"

\* the record of handler s is connected: its session has not been ended
SessionOpen(s) ==
    cid[s] \in DOMAIN clientsInfo /\ clientsInfo[cid[s]].status = "connected"

\* C40: each end of an agent session results in exactly one client-disconnected
\* event. The monitor broadcasts one for each record it demotes and a handler
\* broadcasts one after its teardown, so every teardown is the end of a session
\* that had not been ended and announced before
C40_OneEventPerEnd ==
    [][\A s \in Socks : Teardown(s) => SessionOpen(s)]_vars

====
